---- MODULE Spec2Model ----
(***************************************************************************)
(* A model of the plants / agroflex Django back end and of its agent       *)
(* schedulers.                                                             *)
(*                                                                         *)
(*  Spec      the marketplace: users with an access-unit balance, fields,  *)
(*            products, and the HTTP response of the last request handled. *)
(*  SpecOrm   the soft-delete layer of core/models.py: instance and        *)
(*            queryset deletes, and lookups through the default manager.   *)
(*  SpecRace  two product-creation requests of one user, interleaved at    *)
(*            the level of their database reads and writes.                *)
(*  SpecTask  the Task table and CreateTask.post.                          *)
(*  SpecUser  the user table, the tokens, UsersViewSet.create and the       *)
(*            exceptions that reach ExceptionHandlerMiddleware.            *)
(*  SpecSched task_scheduler.TaskScheduler.                                *)
(*  SpecPlan  planning_agent.TaskScheduler.                                *)
(*  SpecSpecies  PlantsSpecies.get and the RequestOffset row.              *)
(*  SpecParse    PlanningAgent.parse_json_response.                        *)
(*  SpecAgent    the planning agent's two model calls and                  *)
(*               create_agricultural_project.                              *)
(*  SpecRetry    ResearchAgent._generate_content_with_retry, step by step. *)
(*  SpecAudit    AuthUserMiddleware and BaseModel.save on several threads. *)
(*  SpecDeps     the two schedulers side by side.                          *)
(*  SpecConflicts  task_scheduler.TaskScheduler with get_task_conflicts.   *)
(*  SpecList     the marketplace with ProductViewSet list and product      *)
(*               deletes.                                                  *)
(*                                                                         *)
(* Every specification leaves the variables of the others unchanged.       *)
(***************************************************************************)
EXTENDS Integers, Sequences, FiniteSets, TLC

VARIABLES
    tree,        \* the deployed source tree: "plants" or "agroflex"
    users,       \* table user_app_customuser: Seq of rows, pk = index
    fields,      \* table field_field
    products,    \* table market_product
    tasks,       \* table task_task
    tokens,      \* table authtoken_token: the set of user pks holding a token
    now,         \* the value the next datetime.now() returns
    response,    \* the HTTP response of the last request
    request,     \* the last request handled (what was asked, by whom)
    exception,   \* str() of the exception that escaped its view, "" if none
    inflight,    \* SpecRace: the requests being handled, each with the
                 \* user instance it loaded and its position in the view
    scheduler,   \* task_scheduler.TaskScheduler: [tasks, last_id]
    planner,     \* planning_agent.TaskScheduler: [tasks]
    outcome,     \* what the last scheduler call returned or raised
    offsets,     \* table core_requestoffset: Seq of rows, pk = index
    call,        \* the agent method call being made: arguments, position in
                 \* the method, what the model answered, result
    local        \* core.middlewares.local: for each thread, its CURRENT_USER

webVars == <<tree, users, fields, products, tasks, tokens, now, response, request,
            exception>>

agentVars == <<scheduler, planner, outcome>>

restVars == <<offsets, call, local>>

vars == <<webVars, inflight, agentVars, restVars>>

(* threading.local(): every thread has its own attributes, and a thread    *)
(* that has not assigned CURRENT_USER has no such attribute.               *)
NumThreads == 2
Threads == 1..NumThreads
Unset == -2
LocalUnset == [t \in Threads |-> Unset]

(* No RequestOffset row has been stored. *)
NoCall == [op |-> "none"]
RestIdle ==
    /\ offsets = << >>
    /\ call = NoCall
    /\ local = LocalUnset

(* The agent package before any scheduler is constructed. *)
NoOutcome == [op |-> "none"]
AgentIdle ==
    /\ scheduler = [tasks |-> << >>, last_id |-> 0]
    /\ planner = [tasks |-> << >>]
    /\ outcome = NoOutcome

----------------------------------------------------------------------------
(* Python None, SQL NULL.  Primary keys and timestamps are naturals >= 1.  *)
NULL == -1

(* Bounds of the model. *)
MaxAU == 2          \* largest initial user_access_unit
MaxCost == 2        \* largest cost product_access_unit_cost returns
MaxProducts == 2    \* rows the product table may hold
MaxTime == 3        \* datetime.now() stops advancing here
MaxTasks == 2       \* rows the task table holds at the start
MaxUsers == 2       \* rows the user table holds at the start

UserIds == 1..2

----------------------------------------------------------------------------
(* core/models.py: the soft-delete layer shared by every table.            *)

(* CustomBaseManager.get_queryset: Model.objects, the primary keys of the  *)
(* rows whose deleted_at is NULL.                                          *)
objects_unfiltered(table) == DOMAIN table
objects(table) == {pk \in DOMAIN table : table[pk].deleted_at = NULL}

(* Model.objects.get(id = pk): the row is found iff the manager's queryset *)
(* holds it; otherwise Model.DoesNotExist.                                 *)
DoesNotExist(table, pk) == pk \notin objects(table)

(* CustomQueryset.delete: UPDATE ... SET deleted_at = now over the rows of *)
(* the queryset.                                                           *)
CustomQueryset_delete_unfiltered(table, qs, t) ==
    [pk \in DOMAIN table |-> [table[pk] EXCEPT !.deleted_at = t]]
CustomQueryset_delete(table, qs, t) ==
    [pk \in DOMAIN table |->
        IF pk \in qs THEN [table[pk] EXCEPT !.deleted_at = t] ELSE table[pk]]

(* BaseModel.delete on a saved instance (pk is not None): deleted_at is    *)
(* set on the instance and the instance is saved, an UPDATE of the row     *)
(* with that pk.                                                           *)
BaseModel_delete(table, pk, t) == [table EXCEPT ![pk].deleted_at = t]

(* BaseModel.save of a new instance (pk is None, force = False).  Line 58  *)
(* evaluates apps.get_model("user_app", "InterUser") before anything is    *)
(* written.  plants/apps/user_app/models.py registers CustomUser only, so  *)
(* in the plants tree the call raises LookupError and no row is inserted.  *)
(* core/models.py of the agroflex tree is not part of the sources; there   *)
(* the insert is taken to succeed, stamping created_by with the requester. *)
LookupErrorMessage == "App 'user_app' doesn't have a 'InterUser' model."
BaseModel_save_raises == tree = "plants"
agroflex_BaseModel_save(table, row, current_user) ==
    Append(table, [row EXCEPT !.created_by = current_user])

----------------------------------------------------------------------------
(* core/middlewares.py                                                     *)

(* A handler whose message does not depend on the exception. *)
process_exception_generic(error_message) ==
    [status |-> 500,
     body |-> [success |-> FALSE,
               response_code |-> 500,
               response_data |-> NULL,
               response_message |-> "ERROR"]]

(* ExceptionHandlerMiddleware.process_exception: the response built from   *)
(* an exception that escaped the view; error_message = str(exception).     *)
process_exception(error_message) ==
    [status |-> 500,
     body |-> [success |-> FALSE,
               response_code |-> 500,
               response_data |-> NULL,
               response_message |-> "ERROR : " \o error_message]]

(* settings.py names the REST framework exception handler as               *)
(* core.Exceptions.handlers.common_exception_handler, while the module in  *)
(* the tree is core/Exceptions/handler.py.  APIView.handle_exception       *)
(* fetches the handler for every exception raised by initial() or by the   *)
(* handler method, the import fails, and the ImportError is what escapes   *)
(* the view in place of the exception that was raised.                     *)
ImportErrorMessage ==
    "Could not import 'plants.apps.core.Exceptions.handlers.common_exception_handler' for API setting 'EXCEPTION_HANDLER'."

APIView_handle_exception(exc) == ImportErrorMessage

(* How a request ends: the view returns a response, or an exception        *)
(* escapes it and Django hands it to process_exception, whose response is  *)
(* the response of the request.  `exception` keeps the text of the         *)
(* exception that reached the middleware, "" when none did.                *)
Return(resp) == response' = resp /\ exception' = ""

(* An exception escaping the view with no handler lookup in between. *)
RaiseUncaught(error_message) ==
    response' = process_exception(error_message) /\ exception' = error_message

(* An exception raised inside APIView.dispatch's try block. *)
Raise(exc) == RaiseUncaught(APIView_handle_exception(exc))

----------------------------------------------------------------------------
(* market/views/product.py, old_market/views/product.py                    *)

(* The values product_access_unit_cost(unit, quantity) takes over the      *)
(* valid payloads.                                                         *)
Costs == 0..MaxCost

InsufficientAU ==
    [status |-> 403,
     body |-> [success |-> FALSE,
               respose_code |-> 403,
               respose_data |-> NULL,
               response_message |-> "insufficient AU, please charge your account"]]

FieldNotFound(field_pk) ==
    [status |-> 404,
     body |-> [success |-> FALSE,
               respose_code |-> 404,
               respose_data |-> NULL,
               response_message |->
                   "field with id " \o ToString(field_pk) \o " does not exist"]]

(* Response(...) without a status argument: HTTP 200 with code 201 in the  *)
(* body.                                                                   *)
ProductCreated(data) ==
    [status |-> 200,
     body |-> [success |-> TRUE,
               response_code |-> 201,
               response_data |-> data,
               response_messsage |-> "product created successfuly"]]

(* The Product row a valid payload makes: product_on_sale is not a field   *)
(* of ProductSerializer, so the column takes its default, False.           *)
NewProduct(field_pk, cost) ==
    [product_field |-> field_pk, created_by |-> NULL, cost |-> cost,
     product_on_sale |-> FALSE, deleted_at |-> NULL]

(* The balance check, "if user.user_access_unit < cost". *)
InsufficientCredit_swapped(balance, cost) == cost < balance
InsufficientCredit_nonstrict(balance, cost) == balance <= cost
InsufficientCredit(balance, cost) == balance < cost

(* user.user_access_unit -= cost; user.save(): the row of the requester is *)
(* written back with the decremented balance.                              *)
Debit(u, cost) ==
    [users EXCEPT ![u].user_access_unit = users[u].user_access_unit - cost]

(* FieldProductView.post, the same code in both trees. *)
FieldProductView_post(u, field_pk, cost) ==
    /\ Len(products) < MaxProducts
    /\ request' = [view |-> "FieldProductView.post", user |-> u,
                   field_pk |-> field_pk, cost |-> cost]
    /\ IF DoesNotExist(fields, field_pk)
       THEN /\ Return(FieldNotFound(field_pk))
            /\ UNCHANGED <<users, products>>
       ELSE IF InsufficientCredit(users[u].user_access_unit, cost)
       THEN /\ Return(InsufficientAU)
            /\ UNCHANGED <<users, products>>
       ELSE /\ users' = Debit(u, cost)
            /\ IF BaseModel_save_raises
               THEN /\ Raise(LookupErrorMessage)
                    /\ UNCHANGED products
               ELSE /\ products' = agroflex_BaseModel_save(
                                       products, NewProduct(field_pk, cost), u)
                    /\ Return(ProductCreated([cost |-> cost]))
    /\ UNCHANGED <<tree, fields, tasks, tokens, now, inflight, agentVars, restVars>>

(* ProductViewSet of the plants tree: a ModelViewSet with no create of its *)
(* own, so POST runs ModelViewSet.create: serializer.save() and a 201      *)
(* response.  user_access_unit is not read and not written.                *)
ProductViewSet_create(u, cost) ==
    /\ tree = "plants"
    /\ Len(products) < MaxProducts
    /\ request' = [view |-> "ProductViewSet.create", user |-> u,
                   field_pk |-> NULL, cost |-> cost]
    /\ IF BaseModel_save_raises
       THEN /\ Raise(LookupErrorMessage)
            /\ UNCHANGED products
       ELSE /\ products' = agroflex_BaseModel_save(
                               products, NewProduct(NULL, cost), u)
            /\ Return([status |-> 201, body |-> [cost |-> cost]])
    /\ UNCHANGED <<tree, users, fields, tasks, tokens, now, inflight, agentVars, restVars>>

(* ProductViewSet.create of the agroflex tree. *)
agroflex_ProductViewSet_create(u, cost) ==
    /\ tree = "agroflex"
    /\ Len(products) < MaxProducts
    /\ request' = [view |-> "ProductViewSet.create", user |-> u,
                   field_pk |-> NULL, cost |-> cost]
    /\ IF InsufficientCredit(users[u].user_access_unit, cost)
       THEN /\ Return(InsufficientAU)
            /\ UNCHANGED <<users, products>>
       ELSE /\ users' = Debit(u, cost)
            /\ products' = agroflex_BaseModel_save(
                               products, NewProduct(NULL, cost), u)
            /\ Return(ProductCreated([cost |-> cost]))
    /\ UNCHANGED <<tree, fields, tasks, tokens, now, inflight, agentVars, restVars>>

----------------------------------------------------------------------------
(* Deleting, through the ORM.  The table is named by a string; Table and   *)
(* SetTable read and write the variable that holds it.                     *)
TableNames == {"fields", "products"}
Table(name) ==
    CASE name = "fields" -> fields
      [] name = "products" -> products
      [] name = "tasks" -> tasks
      [] name = "users" -> users
SetTable(name, value) ==
    /\ fields' = IF name = "fields" THEN value ELSE fields
    /\ products' = IF name = "products" THEN value ELSE products
    /\ tasks' = IF name = "tasks" THEN value ELSE tasks
    /\ users' = IF name = "users" THEN value ELSE users

ValueErrorMessage == "object can't be deleted because its id attribute is set to None."

(* instance.delete() of BaseModel.  The instance is one never saved (pk is *)
(* None) or one loaded from a row of the table, possibly a row deleted     *)
(* since: Field and Product declare a Meta of their own and so save       *)
(* through the unfiltered base manager.                                    *)
Instance_delete(name, pk) ==
    /\ now <= MaxTime
    /\ request' = [view |-> "BaseModel.delete", table |-> name, pk |-> pk]
    /\ IF pk = NULL
       THEN /\ response' = [raised |-> "ValueError", message |-> ValueErrorMessage]
            /\ UNCHANGED <<fields, products, tasks, users, now>>
       ELSE /\ SetTable(name, BaseModel_delete(Table(name), pk, now))
            /\ response' = [raised |-> "", message |-> ""]
            /\ now' = now + 1
    /\ UNCHANGED <<tree, tokens, inflight, exception, agentVars, restVars>>

(* Model.objects.filter(...).delete(): any queryset drawn from the default *)
(* manager.                                                                *)
Queryset_delete(name, qs) ==
    /\ now <= MaxTime
    /\ request' = [view |-> "CustomQueryset.delete", table |-> name, qs |-> qs]
    /\ SetTable(name, CustomQueryset_delete(Table(name), qs, now))
    /\ response' = [raised |-> "", message |-> ""]
    /\ now' = now + 1
    /\ UNCHANGED <<tree, tokens, inflight, exception, agentVars, restVars>>

----------------------------------------------------------------------------
(* The marketplace specification.  The database starts with two users,     *)
(* each with some balance, and one field per user; the second field may    *)
(* have been soft-deleted (at time 0) before the first request.            *)
NoRequest == [view |-> "none"]
NoResponse == [status |-> 0]

FieldPks == 1..3          \* the ids a request may name: 3 matches no row

Init ==
    /\ tree \in {"plants", "agroflex"}
    /\ \E b1, b2 \in 0..MaxAU :
          users = << [email |-> "a@x", user_access_unit |-> b1, deleted_at |-> NULL],
                     [email |-> "b@x", user_access_unit |-> b2, deleted_at |-> NULL] >>
    /\ \E d \in {NULL, 0} :
          fields = << [created_by |-> 1, deleted_at |-> NULL],
                      [created_by |-> 2, deleted_at |-> d] >>
    /\ products = << >>
    /\ tasks = << >>
    /\ tokens = {}
    /\ now = 1
    /\ request = NoRequest
    /\ response = NoResponse
    /\ exception = ""
    /\ AgentIdle
    /\ RestIdle
    /\ inflight = << >>

Next ==
    \/ \E u \in UserIds, f \in FieldPks, c \in Costs :
          FieldProductView_post(u, f, c)
    \/ \E u \in UserIds, c \in Costs : ProductViewSet_create(u, c)
    \/ \E u \in UserIds, c \in Costs : agroflex_ProductViewSet_create(u, c)

Spec == Init /\ [][Next]_vars

----------------------------------------------------------------------------
(* The soft-delete specification: rows are deleted through the ORM, and    *)
(* looked up by FieldProductView.post.  Both users start with MaxAU.       *)
InitOrm ==
    /\ tree \in {"plants", "agroflex"}
    /\ users = << [email |-> "a@x", user_access_unit |-> MaxAU, deleted_at |-> NULL],
                  [email |-> "b@x", user_access_unit |-> MaxAU, deleted_at |-> NULL] >>
    /\ fields = << [created_by |-> 1, deleted_at |-> NULL],
                   [created_by |-> 2, deleted_at |-> NULL] >>
    /\ products = << >>
    /\ tasks = << >>
    /\ tokens = {}
    /\ now = 1
    /\ request = NoRequest
    /\ response = NoResponse
    /\ exception = ""
    /\ AgentIdle
    /\ RestIdle
    /\ inflight = << >>

NextOrm ==
    \/ \E f \in FieldPks : FieldProductView_post(1, f, 1)
    \/ \E name \in TableNames :
          \E pk \in {NULL} \cup DOMAIN Table(name) : Instance_delete(name, pk)
    \/ \E name \in TableNames :
          \E qs \in SUBSET objects(Table(name)) : Queryset_delete(name, qs)

SpecOrm == InitOrm /\ [][NextOrm]_vars

----------------------------------------------------------------------------
(* Properties of the marketplace (Spec).                                   *)

(* The product-creating requests that compute a cost and compare it with   *)
(* the balance: FieldProductView.post once its field is found (the lookup  *)
(* precedes the computation of the cost), and ProductViewSet.create of the *)
(* agroflex tree.                                                          *)
ComputesCost(r) ==
    \/ r.view = "FieldProductView.post" /\ ~DoesNotExist(fields, r.field_pk)
    \/ r.view = "ProductViewSet.create" /\ tree = "agroflex"

(* C1: a product-creation request whose computed cost is strictly more     *)
(* than the requester's user_access_unit is answered with HTTP 403, and    *)
(* the step that handles it changes no balance and adds no Product row.    *)
C1_InsufficientCreditRejected ==
    [][ (ComputesCost(request')
         /\ users[request'.user].user_access_unit < request'.cost)
        => (response'.status = 403 /\ users' = users /\ products' = products)
      ]_vars

(* A 403 was given to a FieldProductView.post whose cost exceeds the       *)
(* balance.                                                                *)
C1_Witness ==
    /\ request.view = "FieldProductView.post"
    /\ response = InsufficientAU
    /\ users[request.user].user_access_unit < request.cost
    /\ request.cost > 0

(* The sum of the costs of the rows first..Len(table) created by user u. *)
RECURSIVE CostOfRows(_, _, _)
CostOfRows(table, first, u) ==
    IF first > Len(table) THEN 0
    ELSE (IF table[first].created_by = u THEN table[first].cost ELSE 0)
         + CostOfRows(table, first + 1, u)

(* C2: every product created debits its creator: in every step, on every   *)
(* product-creating endpoint, each user's balance goes down by exactly the *)
(* cost of the products the step created for that user, so the balance is  *)
(* always the initial one minus the cost of the products created.          *)
C2_EveryProductDebited ==
    [][ \A u \in DOMAIN users :
          users[u].user_access_unit - users'[u].user_access_unit
            = CostOfRows(products', Len(products) + 1, u) ]_vars

----------------------------------------------------------------------------
(* SpecRace: two product-creation requests of user 1 handled by two        *)
(* workers.  A request is handled in the steps at which the view reads or  *)
(* writes the database:                                                    *)
(*   load    authentication loads the user row into request.user;          *)
(*   check   the field lookup, the cost, and the balance check and "-="    *)
(*           on the loaded instance;                                       *)
(*   save    user.save(), which writes the instance's balance to the row;  *)
(*   create  field.products.create(...) / serializer.save().               *)
(* The views take no lock and open no transaction, so the steps of the two *)
(* requests interleave freely.                                             *)
Workers == 1..2
RaceUser == 1

(* user.save(): an UPDATE that sets the column to the value held by the    *)
(* instance, whatever the row holds by then.                               *)
user_save_atomic(stored, instance_value, cost) == stored - cost
user_save(stored, instance_value, cost) == instance_value

RaceViews ==
    IF tree = "agroflex"
    THEN {"FieldProductView.post", "ProductViewSet.create"}
    ELSE {"FieldProductView.post"}

InitRace ==
    /\ tree \in {"plants", "agroflex"}
    /\ \E b \in 0..MaxAU :
          users = << [email |-> "a@x", user_access_unit |-> b, deleted_at |-> NULL],
                     [email |-> "b@x", user_access_unit |-> 0, deleted_at |-> NULL] >>
    /\ fields = << [created_by |-> 1, deleted_at |-> NULL],
                   [created_by |-> 2, deleted_at |-> NULL] >>
    /\ products = << >>
    /\ tasks = << >>
    /\ tokens = {}
    /\ now = 1
    /\ request = NoRequest
    /\ response = NoResponse
    /\ exception = ""
    /\ AgentIdle
    /\ RestIdle
    /\ \E v1, v2 \in RaceViews, c1, c2 \in Costs, f \in {1, 3} :
          inflight =
            [w \in Workers |->
               [pc |-> "start",
                view |-> IF w = 1 THEN v1 ELSE v2,
                cost |-> IF w = 1 THEN c1 ELSE c2,
                field_pk |-> f,
                loaded |-> NULL,             \* the balance read by load
                user_access_unit |-> NULL,   \* request.user.user_access_unit
                status |-> 0]]

Race_load(w) ==
    /\ inflight[w].pc = "start"
    /\ inflight' = [inflight EXCEPT
                      ![w].pc = "loaded",
                      ![w].loaded = users[RaceUser].user_access_unit,
                      ![w].user_access_unit = users[RaceUser].user_access_unit]
    /\ UNCHANGED <<webVars, agentVars, restVars>>

Race_check(w) ==
    LET r == inflight[w] IN
    /\ r.pc = "loaded"
    /\ IF r.view = "FieldProductView.post" /\ DoesNotExist(fields, r.field_pk)
       THEN inflight' = [inflight EXCEPT ![w].pc = "done", ![w].status = 404]
       ELSE IF InsufficientCredit(r.user_access_unit, r.cost)
       THEN inflight' = [inflight EXCEPT ![w].pc = "done", ![w].status = 403]
       ELSE inflight' = [inflight EXCEPT
                           ![w].pc = "debited",
                           ![w].user_access_unit = r.user_access_unit - r.cost]
    /\ UNCHANGED <<webVars, agentVars, restVars>>

Race_save(w) ==
    LET r == inflight[w] IN
    /\ r.pc = "debited"
    /\ users' = [users EXCEPT ![RaceUser].user_access_unit =
                    user_save(users[RaceUser].user_access_unit,
                              r.user_access_unit, r.cost)]
    /\ inflight' = [inflight EXCEPT ![w].pc = "saved"]
    /\ UNCHANGED <<tree, fields, products, tasks, tokens, now, response, request,
                   exception, agentVars, restVars>>

Race_create(w) ==
    LET r == inflight[w]
        field_pk == IF r.view = "FieldProductView.post" THEN r.field_pk ELSE NULL
    IN
    /\ r.pc = "saved"
    /\ IF BaseModel_save_raises
       THEN /\ inflight' = [inflight EXCEPT ![w].pc = "done", ![w].status = 500]
            /\ UNCHANGED products
       ELSE /\ products' = agroflex_BaseModel_save(
                               products, NewProduct(field_pk, r.cost), RaceUser)
            /\ inflight' = [inflight EXCEPT ![w].pc = "done", ![w].status = 200]
    /\ UNCHANGED <<tree, users, fields, tasks, tokens, now, response, request,
                   exception, agentVars, restVars>>

NextRace ==
    \/ \E w \in Workers : Race_load(w)
    \/ \E w \in Workers : Race_check(w)
    \/ \E w \in Workers : Race_save(w)
    \/ \E w \in Workers : Race_create(w)

SpecRace == InitRace /\ [][NextRace]_vars

(* Both requests have finished after passing the balance check, and both   *)
(* had loaded the user with the same balance b, which covers the cost c of *)
(* each.                                                                   *)
BothPassed(b, c) ==
    \A w \in Workers :
        /\ inflight[w].pc = "done"
        /\ inflight[w].status \in {200, 500}
        /\ inflight[w].cost = c
        /\ inflight[w].loaded = b

(* C3: when two requests of one user, each of cost c, both load the user   *)
(* with balance b >= c, both pass the check, and the stored balance ends   *)
(* at b - c, one debit being lost; where rows can be inserted both         *)
(* products exist.                                                         *)
C3_LostUpdate ==
    \A b \in 0..MaxAU, c \in Costs :
        BothPassed(b, c) =>
            /\ users[RaceUser].user_access_unit = b - c
            /\ tree = "agroflex" => Len(products) = 2

(* Two products of cost c > 0 exist, the user had b < 2c, and b - c is     *)
(* what is stored.                                                         *)
C3_Witness ==
    \E b \in 0..MaxAU, c \in Costs :
        /\ BothPassed(b, c)
        /\ c > 0 /\ b >= c /\ b < 2 * c
        /\ Len(products) = 2
        /\ users[RaceUser].user_access_unit = b - c

----------------------------------------------------------------------------
(* Properties of the soft-delete layer (SpecOrm).                          *)

(* The rows a delete request targets. *)
Targets(r) ==
    IF r.view = "CustomQueryset.delete" THEN r.qs
    ELSE IF r.view = "BaseModel.delete" /\ r.pk # NULL THEN {r.pk}
    ELSE {}

(* The table named `name` after the step. *)
TableAfter(name) ==
    CASE name = "fields" -> fields'
      [] name = "products" -> products'
      [] name = "tasks" -> tasks'
      [] name = "users" -> users'

IsDelete(r) == r.view \in {"BaseModel.delete", "CustomQueryset.delete"}

(* C4: soft-deleted rows are excluded from the default manager.  A delete  *)
(* step removes exactly its targets from Model.objects; and the lookup of  *)
(* FieldProductView.post answers 404 exactly when the id names no row or a *)
(* row whose deleted_at is set, changing nothing.                          *)
C4_SoftDeletedExcluded ==
    [][ /\ IsDelete(request') =>
             objects(TableAfter(request'.table)) =
                 objects(Table(request'.table)) \ Targets(request')
        /\ request'.view = "FieldProductView.post" =>
             /\ response'.status = 404 <=>
                   \/ request'.field_pk \notin DOMAIN fields
                   \/ fields[request'.field_pk].deleted_at # NULL
             /\ response'.status = 404 =>
                   /\ response' = FieldNotFound(request'.field_pk)
                   /\ users' = users /\ products' = products
      ]_vars

(* FieldProductView.post answered 404 for the id of a stored row that was  *)
(* soft-deleted.                                                           *)
C4_Witness ==
    /\ request.view = "FieldProductView.post"
    /\ request.field_pk \in DOMAIN fields
    /\ fields[request.field_pk].deleted_at # NULL
    /\ response.status = 404

----------------------------------------------------------------------------
(* task/models.py, task/views.py: SpecTask.                                *)

Titles == {"t1", "t2"}

(* The rows of `table` that are not soft-deleted and carry this title and  *)
(* field: what the partial unique constraint                               *)
(* "one named task for a field,unless deleted" compares a new row with.    *)
LiveTasksNamed(table, title, field) ==
    {pk \in DOMAIN table : /\ table[pk].deleted_at = NULL
                           /\ table[pk].task_title = title
                           /\ table[pk].field = field}

(* The constraint as the database holds it over a whole table. *)
UniqueTaskConstraint(table) ==
    \A p, q \in DOMAIN table :
        (/\ p # q
         /\ table[p].deleted_at = NULL /\ table[q].deleted_at = NULL
         /\ table[p].task_title = table[q].task_title)
        => table[p].field # table[q].field

IntegrityErrorMessage == "UNIQUE constraint failed"

(* user.field_set.get(pk = field_id): the requester's own fields, through  *)
(* the related manager built on Field.objects.                             *)
field_set(u) == {pk \in objects(fields) : fields[pk].created_by = u}

NoFieldMatch == [status |-> 200,
                 body |-> [message |-> "no field match the given query !"]]

NewTask(title, field) ==
    [task_title |-> title, field |-> field, status |-> "P",
     created_by |-> NULL, deleted_at |-> NULL]

(* CreateTask.post.  task.save() is BaseModel.save of a new instance; the  *)
(* INSERT it would issue is subject to the unique constraint.              *)
CreateTask_post(u, field_id, title) ==
    /\ request' = [view |-> "CreateTask.post", user |-> u,
                   field_id |-> field_id, task_title |-> title]
    /\ IF field_id \notin field_set(u)
       THEN Return(NoFieldMatch) /\ UNCHANGED tasks
       ELSE IF BaseModel_save_raises
       THEN Raise(LookupErrorMessage) /\ UNCHANGED tasks
       ELSE IF LiveTasksNamed(tasks, title, field_id) # {}
       THEN Raise(IntegrityErrorMessage) /\ UNCHANGED tasks
       ELSE /\ tasks' = agroflex_BaseModel_save(tasks, NewTask(title, field_id), u)
            /\ Return([status |-> 200,
                       body |-> [task_title |-> title, field |-> field_id,
                                 status |-> "P"]])
    /\ UNCHANGED <<tree, users, fields, products, tokens, now, inflight, agentVars, restVars>>

(* The task tables the database may hold when the first request arrives:   *)
(* up to MaxTasks rows, each on a field and created by its owner, some     *)
(* soft-deleted (at time 0), satisfying the unique constraint.             *)
TaskRows ==
    {[task_title |-> t, field |-> f, status |-> "P", created_by |-> f,
      deleted_at |-> d] : t \in Titles, f \in 1..2, d \in {NULL, 0}}

TaskTables ==
    {t \in UNION {[1..n -> TaskRows] : n \in 0..MaxTasks} : UniqueTaskConstraint(t)}

InitTask ==
    /\ tree = "plants"
    /\ users = << [email |-> "a@x", user_access_unit |-> 0, deleted_at |-> NULL],
                  [email |-> "b@x", user_access_unit |-> 0, deleted_at |-> NULL] >>
    /\ \E d \in {NULL, 0} :
          fields = << [created_by |-> 1, deleted_at |-> NULL],
                      [created_by |-> 2, deleted_at |-> d] >>
    /\ products = << >>
    /\ tasks \in TaskTables
    /\ tokens = {}
    /\ now = 1
    /\ request = NoRequest
    /\ response = NoResponse
    /\ exception = ""
    /\ AgentIdle
    /\ RestIdle
    /\ inflight = << >>

NextTask ==
    \/ \E u \in UserIds, f \in FieldPks, t \in Titles : CreateTask_post(u, f, t)
    \/ \E pk \in {NULL} \cup DOMAIN tasks : Instance_delete("tasks", pk)
    \/ \E qs \in SUBSET objects(tasks) : Queryset_delete("tasks", qs)

SpecTask == InitTask /\ [][NextTask]_vars

(* C6: no two tasks with deleted_at null share (task_title, field).        *)
(* CreateTask.post by the owner of a live field is rejected and leaves the *)
(* table unchanged when a live task of the field has the title, and        *)
(* otherwise (also when every task with that title and field is            *)
(* soft-deleted) inserts the task.                                         *)
C6_UniqueLiveTaskTitle ==
    [][ /\ UniqueTaskConstraint(tasks')
        /\ (/\ request'.view = "CreateTask.post"
            /\ request'.field_id \in field_set(request'.user))
           => IF LiveTasksNamed(tasks, request'.task_title, request'.field_id) # {}
              THEN tasks' = tasks /\ response'.status = 500
              ELSE /\ Len(tasks') = Len(tasks) + 1
                   /\ tasks'[Len(tasks')].task_title = request'.task_title
                   /\ tasks'[Len(tasks')].field = request'.field_id
                   /\ tasks'[Len(tasks')].deleted_at = NULL
                   /\ \A pk \in DOMAIN tasks : tasks'[pk] = tasks[pk]
      ]_vars

----------------------------------------------------------------------------
(* user_app/models.py, user_app/views.py, task/resources/views/ussd.py:    *)
(* SpecUser.                                                               *)

Emails == {"a@x", "b@x", "c@x"}

(* What request.data of a user creation can be: fields that pass           *)
(* validation, a key that is not a model field, or a field value that      *)
(* fails its validators.                                                   *)
Payloads == {"valid", "unexpected_key", "invalid_field"}

(* DEFAULT_PERMISSION_CLASSES: IsAuthenticated, by TokenAuthentication. *)
Authenticated(u) == u \in tokens

NotAuthenticatedMessage == "Authentication credentials were not provided."
TypeErrorMessage == "CustomUser() got unexpected keyword arguments"
AssertionErrorMessage ==
    "Expected a Response, HttpResponse or HttpStreamingResponse to be returned from the view, but received a <class 'NoneType'>"

validate_unique_skipped(table, email) == TRUE

(* Model.validate_unique / validate_constraints for email: the lookup goes *)
(* through the default manager, so only rows that are not soft-deleted     *)
(* count.                                                                  *)
validate_unique(table, email) ==
    ~ \E pk \in objects(table) : table[pk].email = email

(* The fields full_clean() reports. *)
error_dict(table, email, payload) ==
    (IF payload = "invalid_field" THEN {"password"} ELSE {})
    \cup (IF validate_unique(table, email) THEN {} ELSE {"email"})

(* The email column is unique=True: no two rows, deleted or not. *)
UniqueEmailColumn(table) ==
    \A p, q \in DOMAIN table : p # q => table[p].email # table[q].email

NewUser(email) == [email |-> email, user_access_unit |-> 0, deleted_at |-> NULL]

(* UsersViewSet.create *)
UsersViewSet_create(u, email, payload) ==
    /\ request' = [view |-> "UsersViewSet.create", user |-> u,
                   email |-> email, payload |-> payload]
    /\ IF ~Authenticated(u)
       THEN Raise(NotAuthenticatedMessage) /\ UNCHANGED <<users, tokens>>
       ELSE IF payload = "unexpected_key"
       THEN Raise(TypeErrorMessage) /\ UNCHANGED <<users, tokens>>
       ELSE IF error_dict(users, email, payload) # {}
       THEN /\ Return([status |-> 400,
                       body |-> [error_dict |-> error_dict(users, email, payload)]])
            /\ UNCHANGED <<users, tokens>>
       ELSE IF BaseModel_save_raises
       THEN Raise(LookupErrorMessage) /\ UNCHANGED <<users, tokens>>
       ELSE IF ~UniqueEmailColumn(Append(users, NewUser(email)))
       THEN Raise(IntegrityErrorMessage) /\ UNCHANGED <<users, tokens>>
       ELSE /\ users' = Append(users, NewUser(email))
            /\ tokens' = tokens \cup {Len(users) + 1}
            /\ Return([status |-> 200,
                       body |-> [id |-> Len(users) + 1, email |-> email]])
    /\ UNCHANGED <<tree, fields, products, tasks, now, inflight, agentVars, restVars>>

ContentTypes == {"application/x-www-form-urlencoded", "application/json"}
UssdTexts == {"", "1"}

(* GenerateUserIdent.post: with a form body whose text is not empty the    *)
(* method falls off its end and returns None, which                        *)
(* APIView.finalize_response refuses outside dispatch's try block.         *)
GenerateUserIdent_post(u, content_type, text) ==
    /\ request' = [view |-> "GenerateUserIdent.post", user |-> u,
                   content_type |-> content_type, text |-> text]
    /\ IF ~Authenticated(u)
       THEN Raise(NotAuthenticatedMessage)
       ELSE IF content_type = "application/x-www-form-urlencoded"
       THEN IF text = ""
            THEN Return([status |-> 200,
                         body |-> [data |-> "CON Generate user ident ? 1.Yes 2.No"]])
            ELSE RaiseUncaught(AssertionErrorMessage)
       ELSE Return([status |-> 200, body |-> [message |-> "wrong data format"]])
    /\ UNCHANGED <<tree, users, fields, products, tasks, tokens, now, inflight, agentVars, restVars>>

(* The user tables the database may hold when the first request arrives,   *)
(* each user with the token its creation made.                             *)
UserRows ==
    {[email |-> e, user_access_unit |-> 0, deleted_at |-> d] :
        e \in Emails, d \in {NULL, 0}}

UserTables ==
    {t \in UNION {[1..n -> UserRows] : n \in 0..MaxUsers} : UniqueEmailColumn(t)}

InitUser ==
    /\ tree = "plants"
    /\ users \in UserTables
    /\ tokens = DOMAIN users
    /\ fields = << >>
    /\ products = << >>
    /\ tasks = << >>
    /\ now = 1
    /\ request = NoRequest
    /\ response = NoResponse
    /\ exception = ""
    /\ AgentIdle
    /\ RestIdle
    /\ inflight = << >>

NextUser ==
    \/ \E u \in {NULL} \cup DOMAIN users, e \in Emails, p \in Payloads :
          UsersViewSet_create(u, e, p)
    \/ \E u \in {NULL} \cup DOMAIN users, c \in ContentTypes, t \in UssdTexts :
          GenerateUserIdent_post(u, c, t)
    \/ \E pk \in {NULL} \cup objects(users) : Instance_delete("users", pk)
    \/ \E qs \in SUBSET objects(users) : Queryset_delete("users", qs)

SpecUser == InitUser /\ [][NextUser]_vars

(* C7: no two users that are not soft-deleted have the same email, and     *)
(* UsersViewSet.create with the email of a user that is not soft-deleted   *)
(* creates no user and no token and answers with an error status: 400      *)
(* naming the email field when the request is authenticated and its keys   *)
(* are model fields.                                                       *)
C7_EmailUnique ==
    [][ /\ \A p, q \in objects(users') :
              p # q => users'[p].email # users'[q].email
        /\ (/\ request'.view = "UsersViewSet.create"
            /\ \E pk \in objects(users) : users[pk].email = request'.email)
           => /\ users' = users
              /\ tokens' = tokens
              /\ response'.status \in {400, 500}
              /\ (Authenticated(request'.user) /\ request'.payload # "unexpected_key")
                 => /\ response'.status = 400
                    /\ "email" \in response'.body.error_dict
      ]_vars

C7_Witness ==
    /\ request.view = "UsersViewSet.create"
    /\ request.payload = "valid"
    /\ Authenticated(request.user)
    /\ \E pk \in objects(users) : users[pk].email = request.email
    /\ response.status = 400
    /\ Cardinality(objects(users)) = 2

Is500(r) == "status" \in DOMAIN r /\ r.status = 500

(* C8 as stated: the message of a 500 response is the same for every       *)
(* exception, so two 500 responses in a row carry the same message.        *)
C8_GenericMessage ==
    [][ (Is500(response) /\ Is500(response'))
        => response'.body.response_message = response.body.response_message
      ]_vars

(* C8: every exception that escapes a view ends the request with the 500   *)
(* envelope {success: false, response_code: 500, response_data: null,      *)
(* response_message: "ERROR : " followed by the text of the exception},    *)
(* and a request whose view returns gets the view's response, which is not *)
(* a 500.                                                                  *)
C8_ExceptionEnvelope ==
    [][ request'.view \notin {"none", "BaseModel.delete", "CustomQueryset.delete"}
        => IF exception' # ""
           THEN /\ response'.status = 500
                /\ response'.body.success = FALSE
                /\ response'.body.response_code = 500
                /\ response'.body.response_data = NULL
                /\ response'.body.response_message = "ERROR : " \o exception'
           ELSE response'.status # 500
      ]_vars

C8_Witness ==
    /\ request.view = "GenerateUserIdent.post"
    /\ exception = AssertionErrorMessage
    /\ response.body.response_message = "ERROR : " \o AssertionErrorMessage

----------------------------------------------------------------------------
(* agent/agents/task_scheduler.py: SpecSched.  Dates are whole hours.      *)

MaxSchedTasks == 3
MaxClock == 2

Statuses == {"pending", "in_progress", "completed", "cancelled"}

(* The rank the sort key gives to TaskPriority values. *)
PriorityRank(priority) ==
    CASE priority = "low" -> 0
      [] priority = "medium" -> 1
      [] priority = "high" -> 2
      [] priority = "urgent" -> 3

(* The task_data dictionaries add_task is called with. *)
TaskData ==
    { [estimated_duration |-> 1, priority |-> "urgent", dependencies |-> << >>],
      [estimated_duration |-> 2, priority |-> "low",    dependencies |-> << >>],
      [estimated_duration |-> 0, priority |-> "medium", dependencies |-> << >>],
      [estimated_duration |-> 1, priority |-> "high",   dependencies |-> <<1>>],
      [estimated_duration |-> 1, priority |-> "medium", dependencies |-> <<2, 9>>] }

(* The variables no scheduler method touches. *)
webIdleVars == <<tree, users, fields, products, tasks, tokens, response, request,
                exception, inflight, restVars>>

(* get_task: the index of the first task with this id, 0 for None. *)
get_task(task_list, task_id) ==
    IF \E i \in DOMAIN task_list : task_list[i].id = task_id
    THEN CHOOSE i \in DOMAIN task_list :
            /\ task_list[i].id = task_id
            /\ \A j \in DOMAIN task_list : task_list[j].id = task_id => i <= j
    ELSE 0

(* TaskScheduler.add_task *)
add_task(task_data) ==
    /\ Len(scheduler.tasks) < MaxSchedTasks
    /\ scheduler' =
          [tasks |-> Append(scheduler.tasks,
                            [id |-> scheduler.last_id + 1,
                             estimated_duration |-> task_data.estimated_duration,
                             priority |-> task_data.priority,
                             status |-> "pending",
                             dependencies |-> task_data.dependencies,
                             start_date |-> NULL,
                             end_date |-> NULL]),
           last_id |-> scheduler.last_id + 1]
    /\ outcome' = [op |-> "add_task", returned |-> scheduler.last_id + 1]
    /\ UNCHANGED <<webIdleVars, now, planner>>

(* TaskScheduler.update_task_status *)
update_task_status(task_id, status) ==
    LET i == get_task(scheduler.tasks, task_id) IN
    /\ now < MaxClock
    /\ IF i # 0
       THEN /\ scheduler' =
                 [scheduler EXCEPT
                    !.tasks[i].status = status,
                    !.tasks[i].start_date =
                        IF status = "in_progress" THEN now ELSE @,
                    !.tasks[i].end_date =
                        IF status \in {"completed", "cancelled"} THEN now ELSE @]
            /\ outcome' = [op |-> "update_task_status", returned |-> TRUE]
       ELSE /\ UNCHANGED scheduler
            /\ outcome' = [op |-> "update_task_status", returned |-> FALSE]
    /\ now' = now + 1
    /\ UNCHANGED <<webIdleVars, planner>>

(* The sort key of optimize_schedule and schedule_tasks:                   *)
(* (len(dependencies), rank of the priority), compared as a tuple.          *)
SortBefore(x, y) ==
    \/ Len(x.dependencies) < Len(y.dependencies)
    \/ /\ Len(x.dependencies) = Len(y.dependencies)
       /\ PriorityRank(x.priority) < PriorityRank(y.priority)

(* list.sort(key = ...) of the pending tasks: ascending and stable.  The   *)
(* result is the sequence of their positions in task_list.                 *)
sorted_pending(task_list) ==
    LET pending == {i \in DOMAIN task_list : task_list[i].status = "pending"}
        Ahead(i) == {j \in pending :
                        \/ SortBefore(task_list[j], task_list[i])
                        \/ /\ ~SortBefore(task_list[i], task_list[j])
                           /\ j < i}
    IN [k \in 1..Cardinality(pending) |->
           CHOOSE i \in pending : Cardinality(Ahead(i)) = k - 1]

(* all(self.get_task(dep_id).status == COMPLETED for dep_id in deps):      *)
(* stops at the first dependency that is not completed, and raises         *)
(* AttributeError on the first one reached that names no task.             *)
all_completed_unchecked(task_list, dependencies) == "True"

RECURSIVE all_completed(_, _)
all_completed(task_list, dependencies) ==
    IF dependencies = << >> THEN "True"
    ELSE LET i == get_task(task_list, Head(dependencies)) IN
         IF i = 0 THEN "AttributeError"
         ELSE IF task_list[i].status # "completed" THEN "False"
         ELSE all_completed(task_list, Tail(dependencies))

AttributeErrorStatus == "'NoneType' object has no attribute 'status'"

(* A scheduler that never moves current_date. *)
advance_stuck(current_date, end_date) == current_date

(* current_date = task.end_date *)
advance(current_date, end_date) == end_date

(* The for loop of optimize_schedule over the sorted pending tasks. *)
RECURSIVE optimize_loop(_, _, _, _)
optimize_loop(task_list, order, current_date, scheduled_tasks) ==
    IF order = << >>
    THEN [tasks |-> task_list, returned |-> scheduled_tasks, raised |-> ""]
    ELSE LET i == Head(order)
             met == all_completed(task_list, task_list[i].dependencies)
             end_date == current_date + task_list[i].estimated_duration
         IN IF met = "AttributeError"
            THEN [tasks |-> task_list, returned |-> << >>,
                  raised |-> AttributeErrorStatus]
            ELSE IF met = "True"
            THEN optimize_loop(
                    [task_list EXCEPT ![i].start_date = current_date,
                                      ![i].end_date = end_date],
                    Tail(order), advance(current_date, end_date),
                    Append(scheduled_tasks, task_list[i].id))
            ELSE optimize_loop(task_list, Tail(order), current_date,
                               scheduled_tasks)

(* TaskScheduler.optimize_schedule *)
optimize_schedule ==
    LET r == optimize_loop(scheduler.tasks, sorted_pending(scheduler.tasks),
                           now, << >>)
    IN /\ now < MaxClock
       /\ scheduler' = [scheduler EXCEPT !.tasks = r.tasks]
       /\ outcome' = [op |-> "optimize_schedule", at |-> now,
                      returned |-> r.returned, raised |-> r.raised]
       /\ now' = now + 1
       /\ UNCHANGED <<webIdleVars, planner>>

(* No web request is in progress. *)
WebIdle ==
    /\ tree = "plants"
    /\ users = << >>
    /\ fields = << >>
    /\ products = << >>
    /\ tasks = << >>
    /\ tokens = {}
    /\ request = NoRequest
    /\ response = NoResponse
    /\ exception = ""
    /\ inflight = << >>

InitSched ==
    /\ WebIdle
    /\ now = 0
    /\ AgentIdle
    /\ RestIdle

NextSched ==
    \/ \E task_data \in TaskData : add_task(task_data)
    \/ \E task_id \in 1..MaxSchedTasks, status \in Statuses :
          update_task_status(task_id, status)
    \/ optimize_schedule

SpecSched == InitSched /\ [][NextSched]_vars

(* C9: optimize_schedule returns pending tasks only, each once, in         *)
(* ascending order of (number of dependencies, priority rank); the first   *)
(* returned task starts at the call time, each later one at the end_date   *)
(* of the one returned before it, each end_date is start_date plus         *)
(* estimated_duration, so a returned task ends no later than the next one  *)
(* starts; a task that is not pending is not returned and keeps its dates; *)
(* a completed call returns every pending task whose dependencies are all  *)
(* completed and leaves the other pending tasks as they were.              *)
C9_SequentialDates ==
    [][ outcome'.op = "optimize_schedule"
        => LET before == scheduler.tasks
               after == scheduler'.tasks
               r == outcome'.returned
               T(k) == after[get_task(after, r[k])]
           IN /\ Len(after) = Len(before)
              /\ \A i \in DOMAIN before :
                    before[i].status # "pending"
                    => /\ after[i] = before[i]
                       /\ \A k \in DOMAIN r : r[k] # before[i].id
              /\ \A k \in DOMAIN r :
                    /\ T(k).status = "pending"
                    /\ T(k).end_date = T(k).start_date + T(k).estimated_duration
                    /\ T(k).start_date =
                          IF k = 1 THEN outcome'.at ELSE T(k - 1).end_date
              /\ \A k, l \in DOMAIN r :
                    k < l => /\ r[k] # r[l]
                             /\ ~SortBefore(T(l), T(k))
                             /\ T(k).end_date <= T(l).start_date
              /\ outcome'.raised = ""
                 => \A i \in DOMAIN before :
                       IF /\ before[i].status = "pending"
                          /\ all_completed(before, before[i].dependencies) = "True"
                       THEN \E k \in DOMAIN r : r[k] = before[i].id
                       ELSE after[i] = before[i]
      ]_vars

C9_Witness ==
    /\ outcome.op = "optimize_schedule"
    /\ outcome.raised = ""
    /\ Len(outcome.returned) = 2
    /\ outcome.returned[1] > outcome.returned[2]
    /\ \E i \in DOMAIN scheduler.tasks :
          /\ scheduler.tasks[i].status = "in_progress"
          /\ scheduler.tasks[i].start_date # NULL
    /\ \A k \in 1..2 :
          scheduler.tasks[get_task(scheduler.tasks, outcome.returned[k])]
              .estimated_duration > 0

----------------------------------------------------------------------------
(* agent/agents/planning_agent.py, weather_service.py: SpecPlan.           *)

(* dict.get(key, default) *)
Get(dict, key, default) == IF key \in DOMAIN dict THEN dict[key] ELSE default

(* WeatherService.get_current_weather: the flat dictionary it builds from  *)
(* the API's answer, or None when the request fails.                       *)
WeatherNone == [None |-> TRUE]

Weathers ==
    { WeatherNone,
      [temperature |-> 20, humidity |-> 50, pressure |-> 1013, wind_speed |-> 3,
       description |-> "clear sky"],
      [temperature |-> 40, humidity |-> 90, pressure |-> 990, wind_speed |-> 60,
       description |-> "storm"] }

(* Task.is_weather_suitable, for a weather_data that is a dictionary. *)
is_weather_suitable(task, weather_data) ==
    LET wind_speed == Get(Get(weather_data, "wind", << >>), "speed", 0)
        precipitation == Get(Get(weather_data, "rain", << >>), "1h", 0)
        temperature == Get(Get(weather_data, "main", << >>), "temp", 20)
        c == task.weather_constraints
    IN /\ wind_speed <= Get(c, "max_wind_speed", 30)
       /\ precipitation <= Get(c, "max_precipitation", 5)
       /\ Get(c, "min_temperature", 5) <= temperature
       /\ temperature <= Get(c, "max_temperature", 35)

(* The Task objects add_task is called with: id None or given. *)
PlanTasks ==
    { [id |-> NULL, priority |-> "urgent", estimated_duration |-> 1,
       dependencies |-> << >>, weather_constraints |-> << >>],
      [id |-> NULL, priority |-> "low", estimated_duration |-> 2,
       dependencies |-> << >>, weather_constraints |-> [max_temperature |-> 10]],
      [id |-> NULL, priority |-> "high", estimated_duration |-> 1,
       dependencies |-> <<1>>, weather_constraints |-> [max_wind_speed |-> 10]],
      [id |-> 1, priority |-> "medium", estimated_duration |-> 0,
       dependencies |-> <<9>>, weather_constraints |-> << >>] }

(* planning_agent.TaskScheduler.add_task *)
planner_add_task(task) ==
    /\ Len(planner.tasks) < MaxSchedTasks
    /\ LET id == IF task.id = NULL THEN Len(planner.tasks) + 1 ELSE task.id
           new == [id |-> id,
                   priority |-> task.priority,
                   status |-> "pending",
                   start_date |-> NULL,
                   end_date |-> NULL,
                   dependencies |-> task.dependencies,
                   weather_constraints |-> task.weather_constraints,
                   estimated_duration |-> task.estimated_duration]
       IN /\ planner' = [tasks |-> Append(planner.tasks, new)]
          /\ outcome' = [op |-> "add_task", returned |-> id]
    /\ UNCHANGED <<webIdleVars, now, scheduler>>

(* planning_agent.TaskScheduler.update_task_status *)
planner_update_task_status(task_id, status) ==
    LET i == get_task(planner.tasks, task_id) IN
    /\ IF i # 0
       THEN /\ planner' = [planner EXCEPT !.tasks[i].status = status]
            /\ outcome' = [op |-> "update_task_status", returned |-> TRUE]
       ELSE /\ UNCHANGED planner
            /\ outcome' = [op |-> "update_task_status", returned |-> FALSE]
    /\ UNCHANGED <<webIdleVars, now, scheduler>>

AttributeErrorGet == "'NoneType' object has no attribute 'get'"
AttributeErrorTimedelta ==
    "type object 'datetime.datetime' has no attribute 'timedelta'"

(* The for loop of schedule_tasks.  `datetime` is the class imported by    *)
(* `from datetime import datetime, timedelta`, so both                     *)
(* datetime.timedelta(...) expressions raise AttributeError: the one after *)
(* task.start_date was assigned, and the one that would move current_date  *)
(* after an unsuitable check.                                              *)
RECURSIVE schedule_loop(_, _, _, _)
schedule_loop(task_list, order, current_date, weather) ==
    IF order = << >>
    THEN [tasks |-> task_list, returned |-> << >>, raised |-> ""]
    ELSE LET i == Head(order)
             dependencies_met == all_completed(task_list, task_list[i].dependencies)
         IN IF dependencies_met = "AttributeError"
            THEN [tasks |-> task_list, returned |-> << >>,
                  raised |-> AttributeErrorStatus]
            ELSE IF dependencies_met = "False"
            THEN schedule_loop(task_list, Tail(order), current_date, weather)
            ELSE IF weather = WeatherNone
            THEN [tasks |-> task_list, returned |-> << >>,
                  raised |-> AttributeErrorGet]
            ELSE IF is_weather_suitable(task_list[i], weather)
            THEN [tasks |-> [task_list EXCEPT ![i].start_date = current_date],
                  returned |-> << >>, raised |-> AttributeErrorTimedelta]
            ELSE [tasks |-> task_list, returned |-> << >>,
                  raised |-> AttributeErrorTimedelta]

(* planning_agent.TaskScheduler.schedule_tasks; `weather` is what          *)
(* weather_service.get_current_weather answers.                            *)
schedule_tasks(weather) ==
    LET r == schedule_loop(planner.tasks, sorted_pending(planner.tasks), now,
                           weather)
    IN /\ now < MaxClock
       /\ planner' = [planner EXCEPT !.tasks = r.tasks]
       /\ outcome' = [op |-> "schedule_tasks", at |-> now, weather |-> weather,
                      returned |-> r.returned, raised |-> r.raised]
       /\ now' = now + 1
       /\ UNCHANGED <<webIdleVars, scheduler>>

InitPlan ==
    /\ WebIdle
    /\ now = 0
    /\ AgentIdle
    /\ RestIdle

NextPlan ==
    \/ \E task \in PlanTasks : planner_add_task(task)
    \/ \E task_id \in 1..MaxSchedTasks, status \in Statuses :
          planner_update_task_status(task_id, status)
    \/ \E weather \in Weathers : schedule_tasks(weather)

SpecPlan == InitPlan /\ [][NextPlan]_vars

(* C10: schedule_tasks schedules: with weather data available and every    *)
(* dependency naming a task the call completes; a task that received a     *)
(* start_date in the call has end_date = start_date + estimated_duration;  *)
(* and two tasks dated by the same call do not start at the same time      *)
(* unless the earlier one has no duration.                                 *)
C10_WeatherGatedSequential ==
    [][ outcome'.op = "schedule_tasks"
        => LET before == planner.tasks
               after == planner'.tasks
               dated == {i \in DOMAIN before :
                            /\ before[i].status = "pending"
                            /\ after[i].start_date = outcome'.at}
           IN /\ (/\ outcome'.weather # WeatherNone
                  /\ \A i \in DOMAIN before :
                        \A k \in DOMAIN before[i].dependencies :
                           get_task(before, before[i].dependencies[k]) # 0)
                 => outcome'.raised = ""
              /\ \A i \in dated :
                    after[i].end_date
                       = after[i].start_date + after[i].estimated_duration
      ]_vars

----------------------------------------------------------------------------
(* plants_species/views.py, core/views.py: SpecSpecies.                    *)

(* len(PERENUAL_API_KEYS); the keys are named by their list index. *)
NumKeys == 2

(* The X-RateLimit-Remaining header of the upstream answer, NULL when the  *)
(* header is absent.                                                       *)
Remainings == {NULL, 0, 1, 2}

(* RequestOffset.objects.first(): the pk of the first row that is not      *)
(* soft-deleted, NULL for None.                                            *)
first(table) ==
    IF objects(table) = {} THEN NULL
    ELSE CHOOSE pk \in objects(table) : \A q \in objects(table) : pk <= q

AttributeErrorOffset == "'NoneType' object has no attribute 'offset'"
IndexErrorMessage == "list index out of range"

(* PERENUAL_API_KEYS[request_offset] raises IndexError. *)
IndexError(request_offset) == request_offset >= NumKeys

(* The variables the plants_species views leave alone. *)
speciesIdleVars == <<tree, users, fields, products, tasks, tokens, now, inflight,
                    agentVars, call, local>>

(* PlantsSpecies.get.  `remaining` and `limited` are the upstream answer:  *)
(* its rate-limit header, and whether its JSON body has the key            *)
(* "X-RateLimit-Remaining".  request.key is the index of the key the       *)
(* upstream request was sent with, NULL when none was sent.                *)
PlantsSpecies_get(remaining, limited) ==
    LET off == first(offsets)
        request_offset == offsets[off].offset
        req(offset, key) ==
            [view |-> "PlantsSpecies.get", request_offset |-> offset,
             key |-> key, remaining |-> remaining, limited |-> limited]
    IN
    /\ UNCHANGED speciesIdleVars
    /\ IF off = NULL
       THEN /\ request' = req(NULL, NULL)
            /\ Raise(AttributeErrorOffset)
            /\ UNCHANGED offsets
       ELSE IF IndexError(request_offset)
       THEN \* except IndexError: the stored offset is reset, then the same
            \* subscript with the same local request_offset is evaluated again
            /\ request' = req(request_offset, NULL)
            /\ offsets' = [offsets EXCEPT ![off].offset = 0]
            /\ Raise(IndexErrorMessage)
       ELSE /\ request' = req(request_offset, request_offset)
            /\ offsets' = IF remaining = 1
                          THEN [offsets EXCEPT ![off].offset = request_offset + 1]
                          ELSE offsets
            /\ Return([status |-> 200,
                       body |-> IF limited THEN [message |-> "limit offset"]
                                ELSE [data |-> "species"]])

(* init_request_offset: RequestOffset().save() is a first save. *)
init_request_offset ==
    /\ UNCHANGED speciesIdleVars
    /\ request' = [view |-> "init_request_offset"]
    /\ IF BaseModel_save_raises
       THEN Raise(LookupErrorMessage) /\ UNCHANGED offsets
       ELSE /\ offsets' = Append(offsets, [offset |-> 0, deleted_at |-> NULL])
            /\ Return([status |-> 200,
                       body |-> [success |-> TRUE, response_code |-> "00"]])

(* The RequestOffset tables the database may hold: no row, or one row with *)
(* an offset the view can have stored (0 .. NumKeys), possibly followed by *)
(* a second row.                                                           *)
OffsetTables ==
    {<< >>}
    \cup {<<[offset |-> n, deleted_at |-> NULL]>> : n \in 0..NumKeys}
    \cup {<<[offset |-> n, deleted_at |-> d], [offset |-> 0, deleted_at |-> NULL]>> :
             n \in 0..NumKeys, d \in {NULL, 0}}

InitSpecies ==
    /\ WebIdle
    /\ now = 1
    /\ AgentIdle
    /\ call = NoCall
    /\ local = LocalUnset
    /\ offsets \in OffsetTables

NextSpecies ==
    \/ \E remaining \in Remainings, limited \in BOOLEAN :
          PlantsSpecies_get(remaining, limited)
    \/ init_request_offset

SpecSpecies == InitSpecies /\ [][NextSpecies]_vars

(* C11: a request finding a stored offset inside the key list is sent with *)
(* the key at that offset, and the stored offset grows by exactly one when *)
(* the answer reports X-RateLimit-Remaining = 1 and is unchanged           *)
(* otherwise; a request finding the stored offset past the end of the list *)
(* resets it to 0 and is served, sent with the first key.                  *)
C11_KeyRotation ==
    [][ (request'.view = "PlantsSpecies.get" /\ first(offsets) # NULL)
        => LET off == first(offsets)
               stored == offsets[off].offset
           IN IF stored < NumKeys
              THEN /\ request'.key = stored
                   /\ offsets'[off].offset
                         = IF request'.remaining = 1 THEN stored + 1 ELSE stored
              ELSE /\ request'.key = 0
                   /\ response'.status = 200
                   /\ offsets'[off].offset
                         = IF request'.remaining = 1 THEN 1 ELSE 0
      ]_vars

----------------------------------------------------------------------------
(* agent/agents/planning_agent.py, PlanningAgent.parse_json_response:      *)
(* SpecParse.  A response is a sequence of lexical chunks: the brackets,   *)
(* the comma, a key with its colon, a scalar value, whitespace.            *)

MaxLen == 6

Chunks == {"{", "}", "[", "]", ",", "k:", "1", " "}

Responses(n) == [1..n -> Chunks]

(* Python's {} . *)
EmptyDict == <<"{", "}">>

(* str.find / str.rfind of one character: a 1-based position, 0 for -1. *)
find(str, c) ==
    IF \E i \in DOMAIN str : str[i] = c
    THEN CHOOSE i \in DOMAIN str : str[i] = c /\ \A j \in 1..(i - 1) : str[j] # c
    ELSE 0

rfind(str, c) ==
    IF \E i \in DOMAIN str : str[i] = c
    THEN CHOOSE i \in DOMAIN str :
            str[i] = c /\ \A j \in (i + 1)..Len(str) : str[j] # c
    ELSE 0

(* " ".join(json_str.split()): no whitespace at the ends, runs of          *)
(* whitespace become one space.                                            *)
RECURSIVE collapse_spaces(_)
collapse_spaces(str) ==
    IF str = << >> THEN << >>
    ELSE LET rest == collapse_spaces(Tail(str)) IN
         IF Head(str) = " " /\ (rest = << >> \/ Head(rest) = " ")
         THEN rest
         ELSE <<Head(str)>> \o rest

normalize_spaces(str) ==
    LET r == collapse_spaces(str) IN
    IF r # << >> /\ Head(r) = " " THEN Tail(r) ELSE r

(* The position of the first chunk at or after i that is not whitespace,   *)
(* Len + 1 when there is none.                                             *)
RECURSIVE skip_spaces(_, _)
skip_spaces(str, i) ==
    IF i > Len(str) THEN Len(str) + 1
    ELSE IF str[i] = " " THEN skip_spaces(str, i + 1) ELSE i

(* json.loads as a recursive-descent parser.  Each operator takes the      *)
(* position where the construct starts and gives the position after it, 0  *)
(* for JSONDecodeError.                                                    *)
RECURSIVE parse_value(_, _), parse_members(_, _), parse_elements(_, _)
parse_value(str, at) ==
    LET i == skip_spaces(str, at)
        j == skip_spaces(str, i + 1)
    IN IF i > Len(str) THEN 0
       ELSE IF str[i] = "1" THEN i + 1
       ELSE IF str[i] = "{"
       THEN IF j <= Len(str) /\ str[j] = "}" THEN j + 1 ELSE parse_members(str, j)
       ELSE IF str[i] = "["
       THEN IF j <= Len(str) /\ str[j] = "]" THEN j + 1 ELSE parse_elements(str, j)
       ELSE 0

parse_members(str, at) ==
    LET i == skip_spaces(str, at) IN
    IF i > Len(str) \/ str[i] # "k:" THEN 0
    ELSE LET v == parse_value(str, i + 1)
             j == skip_spaces(str, v)
         IN IF v = 0 \/ j > Len(str) THEN 0
            ELSE IF str[j] = "}" THEN j + 1
            ELSE IF str[j] = "," THEN parse_members(str, j + 1)
            ELSE 0

parse_elements(str, at) ==
    LET v == parse_value(str, at)
        j == skip_spaces(str, v)
    IN IF v = 0 \/ j > Len(str) THEN 0
       ELSE IF str[j] = "]" THEN j + 1
       ELSE IF str[j] = "," THEN parse_elements(str, j + 1)
       ELSE 0

JSONDecodeError(str) ==
    LET v == parse_value(str, 1) IN
    v = 0 \/ skip_spaces(str, v) # Len(str) + 1

(* The object json.loads returns, written as its chunks without            *)
(* whitespace.                                                             *)
json_loads(str) == SelectSeq(str, LAMBDA c : c # " ")

(* A cleanup that leaves trailing commas in place. *)
drop_trailing_commas_kept(str, i) == SubSeq(str, i, Len(str))

(* re.sub(r",(\s*[}\]])", r"\1", json_str), from position i on. *)
RECURSIVE drop_trailing_commas(_, _)
drop_trailing_commas(str, i) ==
    IF i > Len(str) THEN << >>
    ELSE LET j == skip_spaces(str, i + 1) IN
         IF str[i] = "," /\ j <= Len(str) /\ str[j] \in {"}", "]"}
         THEN drop_trailing_commas(str, i + 1)
         ELSE <<str[i]>> \o drop_trailing_commas(str, i + 1)

(* re.sub(r"}\s*{", "},{", json_str), from position i on. *)
RECURSIVE insert_missing_commas(_, _)
insert_missing_commas(str, i) ==
    IF i > Len(str) THEN << >>
    ELSE LET j == skip_spaces(str, i + 1) IN
         IF str[i] = "}" /\ j <= Len(str) /\ str[j] = "{"
         THEN <<"}", ",", "{">> \o insert_missing_commas(str, j + 1)
         ELSE <<str[i]>> \o insert_missing_commas(str, i + 1)

(* The second attempt's cleanup.  The json_str it receives is one line     *)
(* that starts with "{", so dropping the lines that start with "//" drops  *)
(* nothing.                                                                *)
aggressive_cleanup(json_str) ==
    insert_missing_commas(drop_trailing_commas(json_str, 1), 1)

(* What parse_json_response(response) does: the number of json.loads       *)
(* calls it makes, whether an exception leaves it, and what it returns.    *)
parse_json_response(is_str, text) ==
    LET start == find(text, "{")
        end == rfind(text, "}")
        json_str == normalize_spaces(SubSeq(text, start, end))
        cleaned == aggressive_cleanup(json_str)
    IN IF ~is_str
       THEN \* None.find raises AttributeError, caught by the outer except
            [attempts |-> 0, raised |-> FALSE, value |-> EmptyDict]
       ELSE IF start = 0 \/ end = 0
       THEN [attempts |-> 0, raised |-> FALSE, value |-> EmptyDict]
       ELSE IF ~JSONDecodeError(json_str)
       THEN [attempts |-> 1, raised |-> FALSE, value |-> json_loads(json_str)]
       ELSE IF ~JSONDecodeError(cleaned)
       THEN [attempts |-> 2, raised |-> FALSE, value |-> json_loads(cleaned)]
       ELSE [attempts |-> 2, raised |-> FALSE, value |-> EmptyDict]

parseIdleVars == <<webVars, inflight, agentVars, offsets, local>>

(* One call of PlanningAgent.parse_json_response. *)
Call_parse_json_response ==
    /\ call.op = "parse_json_response"
    /\ call.pc = "called"
    /\ call' = [op |-> "parse_json_response", pc |-> "returned",
                is_str |-> call.is_str, response |-> call.response,
                result |-> parse_json_response(call.is_str, call.response)]
    /\ UNCHANGED parseIdleVars

InitParse ==
    /\ WebIdle
    /\ now = 0
    /\ AgentIdle
    /\ offsets = << >>
    /\ local = LocalUnset
    /\ \E is_str \in BOOLEAN, n \in 0..MaxLen : \E text \in Responses(n) :
          /\ ~is_str => n = 0
          /\ call = [op |-> "parse_json_response", pc |-> "called",
                     is_str |-> is_str, response |-> text]

NextParse == Call_parse_json_response

SpecParse == InitParse /\ [][NextParse]_vars

(* C12: parse_json_response never raises.  Without a "{" or without a "}"  *)
(* (or for a response that is not a string) it returns {} without parsing. *)
(* Otherwise it parses the span from the first "{" to the last "}" and     *)
(* returns the object when that succeeds; when it fails it parses exactly  *)
(* once more, after the cleanup, and returns that object (the span's       *)
(* chunks with commas dropped or added, e.g. {k:1,} gives {k:1}) or {}.    *)
C12_ParseNeverRaises ==
    (call.op = "parse_json_response" /\ call.pc = "returned")
    => LET r == call.result
           text == call.response
           has_span == /\ call.is_str
                       /\ \E i \in DOMAIN text : text[i] = "{"
                       /\ \E i \in DOMAIN text : text[i] = "}"
           span == SubSeq(text, find(text, "{"), rfind(text, "}"))
           NoCommas(str) == SelectSeq(str, LAMBDA c : c \notin {",", " "})
       IN /\ ~r.raised
          /\ r.attempts \in 0..2
          /\ ~has_span => (r.attempts = 0 /\ r.value = EmptyDict)
          /\ has_span => r.attempts = IF JSONDecodeError(span) THEN 2 ELSE 1
          /\ r.attempts = 1 => r.value = json_loads(span)
          /\ r.attempts = 2
             => \/ r.value = EmptyDict
                \/ /\ ~JSONDecodeError(r.value)
                   /\ NoCommas(r.value) = NoCommas(span)
          /\ json_loads(text) = <<"{", "k:", "1", ",", "}">>
             => r.value = <<"{", "k:", "1", "}">>

C12_Witness ==
    /\ call.op = "parse_json_response"
    /\ call.pc = "returned"
    /\ call.result.attempts = 2
    /\ call.result.value = <<"{", "k:", "1", "}">>
    /\ Head(call.response) = "1"

----------------------------------------------------------------------------
(* agent/agents/base_agent.py, planning_agent.py, agent/main.py: SpecAgent.*)
(* Dictionaries are written as their chunks, like the values json_loads    *)
(* gives; the project template is cut down to one list-valued key, "k".    *)

(* Python's None and "". *)
PyNone == <<"None">>
EmptyStr == << >>

(* What model.generate_content does: raise, answer with an empty text, or  *)
(* answer with a text.                                                     *)
AnswerTexts ==
    { <<"1">>,
      <<"{", "k:">>,
      <<"{", "}">>,
      <<"1", "{", "k:", "1", "}", " ">>,
      <<"{", "k:", "[", "1", "]", "}">>,
      <<"{", "k:", "[", "1", ",", "]", "}">> }

Answers ==
    {[kind |-> "raises"], [kind |-> "empty"]}
    \cup {[kind |-> "text", text |-> t] : t \in AnswerTexts}

(* BaseAgent.send_message: the text, or "" when the call raised or the     *)
(* text was empty.                                                         *)
send_message(answer) ==
    IF answer.kind = "text" THEN answer.text ELSE EmptyStr

DefaultAnalysis == <<"{", "type_culture:", "Non specifie", "}">>
RequiredStructure == <<"{", "k:", "[", "]", "}">>
DefaultProject == <<"{", "k:", "[", "A definir", "]", "}">>

(* The value of the last member of the object that starts at position 1 of *)
(* data (the one a dict keeps for its key), as positions from..to; i is    *)
(* the position of a member's key.                                         *)
RECURSIVE last_member(_, _)
last_member(data, i) ==
    LET v == parse_value(data, i + 1) IN
    IF data[v] = "}" THEN [from |-> i + 1, to |-> v - 1]
    ELSE last_member(data, v + 1)

(* _validate_project_structure / validate_dict for the one-key template:   *)
(* the template's value unless the data has the key with a list.           *)
validate_project_structure(project_data) ==
    IF project_data = EmptyDict THEN RequiredStructure
    ELSE LET m == last_member(project_data, 2) IN
         IF project_data[m.from] = "["
         THEN <<"{", "k:">> \o SubSeq(project_data, m.from, m.to) \o <<"}">>
         ELSE RequiredStructure

(* PlanningAgent.generate_project_analysis *)
generate_project_analysis(answer) ==
    LET text == send_message(answer) IN
    IF text # EmptyStr
    THEN parse_json_response(TRUE, text).value
    ELSE DefaultAnalysis

(* PlanningAgent.create_detailed_project *)
create_detailed_project(answer) ==
    LET text == send_message(answer) IN
    IF text # EmptyStr
    THEN validate_project_structure(parse_json_response(TRUE, text).value)
    ELSE DefaultProject

(* What request_data can be: a dict with the three required fields, a dict *)
(* that lacks one, something that is neither a dict nor a ProjectRequest.  *)
RequestData == {"complete", "missing_fields", "not_a_dict"}

ProjectResponse(success, message, analysis, project) ==
    [success |-> success, message |-> message, analysis |-> analysis,
     project |-> project]

(* main.create_agricultural_project; answer1 and answer2 are what the      *)
(* model does on the analysis call and on the project call.                *)
create_agricultural_project(request_data, answer1, answer2) ==
    LET analysis == generate_project_analysis(answer1)
        project == create_detailed_project(answer2)
    IN IF request_data = "missing_fields"
       THEN ProjectResponse(FALSE, "Erreur de validation : Champs manquants",
                            PyNone, PyNone)
       ELSE IF request_data = "not_a_dict"
       THEN ProjectResponse(FALSE, "Erreur de validation : request_data doit etre un dictionnaire ou une instance de ProjectRequest",
                            PyNone, PyNone)
       ELSE IF analysis = EmptyDict
       THEN ProjectResponse(FALSE, "Echec de l'analyse initiale du projet",
                            PyNone, PyNone)
       ELSE IF project = EmptyDict
       THEN ProjectResponse(FALSE, "Echec de la creation du projet detaille",
                            analysis, PyNone)
       ELSE ProjectResponse(TRUE, "Projet cree avec succes", analysis, project)

agentIdleVars == <<webVars, inflight, agentVars, offsets, local>>

Call_generate_project_analysis(answer) ==
    /\ call' = [op |-> "generate_project_analysis", answer |-> answer,
                raised |-> FALSE, result |-> generate_project_analysis(answer)]
    /\ UNCHANGED agentIdleVars

Call_create_detailed_project(answer) ==
    /\ call' = [op |-> "create_detailed_project", answer |-> answer,
                raised |-> FALSE, result |-> create_detailed_project(answer)]
    /\ UNCHANGED agentIdleVars

Call_create_agricultural_project(request_data, answer1, answer2) ==
    /\ call' = [op |-> "create_agricultural_project",
                request_data |-> request_data,
                answer1 |-> answer1, answer2 |-> answer2, raised |-> FALSE,
                result |-> create_agricultural_project(request_data, answer1,
                                                       answer2)]
    /\ UNCHANGED agentIdleVars

InitAgent ==
    /\ WebIdle
    /\ now = 0
    /\ AgentIdle
    /\ RestIdle

NextAgent ==
    \/ \E answer \in Answers : Call_generate_project_analysis(answer)
    \/ \E answer \in Answers : Call_create_detailed_project(answer)
    \/ \E request_data \in RequestData, answer1, answer2 \in Answers :
          Call_create_agricultural_project(request_data, answer1, answer2)

SpecAgent == InitAgent /\ [][NextAgent]_vars

(* The model call failed, or its text has no JSON that parses. *)
ModelCallFailed(answer) == send_message(answer) = EmptyStr

Unparsable(answer) ==
    /\ answer.kind = "text"
    /\ LET start == find(answer.text, "{")
           end == rfind(answer.text, "}")
           span == SubSeq(answer.text, start, end)
       IN \/ start = 0
          \/ end = 0
          \/ JSONDecodeError(span) /\ JSONDecodeError(aggressive_cleanup(span))

(* C13: neither method raises, and when the model call raises, answers     *)
(* with an empty text, or answers with a text that cannot be parsed,       *)
(* generate_project_analysis returns the default analysis and              *)
(* create_detailed_project returns the default project.                    *)
C13_DefaultsOnFailure ==
    /\ call.op = "generate_project_analysis"
       => /\ ~call.raised
          /\ (ModelCallFailed(call.answer) \/ Unparsable(call.answer))
             => call.result = DefaultAnalysis
    /\ call.op = "create_detailed_project"
       => /\ ~call.raised
          /\ (ModelCallFailed(call.answer) \/ Unparsable(call.answer))
             => call.result = DefaultProject

(* C14: create_agricultural_project does not raise, its result has the     *)
(* four keys, and success is true only for a complete request whose two    *)
(* model calls both succeeded.                                             *)
C14_SuccessIffSucceeded ==
    call.op = "create_agricultural_project"
    => /\ ~call.raised
       /\ DOMAIN call.result = {"success", "message", "analysis", "project"}
       /\ call.result.success
          => /\ call.request_data = "complete"
             /\ ~ModelCallFailed(call.answer1)
             /\ ~ModelCallFailed(call.answer2)

----------------------------------------------------------------------------
(* agent/agents/research_agent.py, _generate_content_with_retry: SpecRetry.*)
(* The call runs step by step; call.log records every model call and every *)
(* sleep in order.                                                         *)

MaxRetries == 4

Texts == {"text a", "text b"}
Excs == {"exc a", "exc b"}

(* What one self.model.generate_content(prompt) / response.text does. *)
ModelOutcomes == {[ok |-> TRUE, val |-> t] : t \in Texts}
                 \cup {[ok |-> FALSE, val |-> e] : e \in Excs}

Event(ev, attempt, val, seconds) ==
    [ev |-> ev, attempt |-> attempt, val |-> val, seconds |-> seconds]

last_attempt_never(attempt, max_retries) == FALSE

(* if attempt == max_retries - 1 *)
last_attempt(attempt, max_retries) == attempt = max_retries - 1

Retrying == call.op = "_generate_content_with_retry"

(* for attempt in range(max_retries): try: generate_content; return text *)
Retry_try(res) ==
    /\ Retrying
    /\ call.pc = "try"
    /\ call.attempt < call.max_retries
    /\ call' = [call EXCEPT
                  !.log = Append(@, Event(IF res.ok THEN "ok" ELSE "raise",
                                          call.attempt, res.val, 0)),
                  !.pc = IF res.ok THEN "returned" ELSE "except",
                  !.returned = IF res.ok THEN res.val ELSE @,
                  !.exc = IF res.ok THEN @ ELSE res.val]
    /\ UNCHANGED agentIdleVars

(* except Exception as e: raise e on the last attempt, else sleep *)
Retry_except ==
    /\ Retrying
    /\ call.pc = "except"
    /\ IF last_attempt(call.attempt, call.max_retries)
       THEN call' = [call EXCEPT !.pc = "raised", !.raised = call.exc]
       ELSE call' = [call EXCEPT
                       !.log = Append(@, Event("sleep", call.attempt, "",
                                               1 * (call.attempt + 1))),
                       !.attempt = @ + 1,
                       !.pc = "try"]
    /\ UNCHANGED agentIdleVars

(* range(max_retries) is used up: the function falls off its end, which    *)
(* returns None.                                                           *)
Retry_exhausted ==
    /\ Retrying
    /\ call.pc = "try"
    /\ call.attempt >= call.max_retries
    /\ call' = [call EXCEPT !.pc = "returned None"]
    /\ UNCHANGED agentIdleVars

InitRetry ==
    /\ WebIdle
    /\ now = 0
    /\ AgentIdle
    /\ offsets = << >>
    /\ local = LocalUnset
    /\ \E max_retries \in 0..MaxRetries :
          call = [op |-> "_generate_content_with_retry",
                  max_retries |-> max_retries, attempt |-> 0, pc |-> "try",
                  log |-> << >>, exc |-> "", returned |-> "", raised |-> ""]

NextRetry ==
    \/ \E res \in ModelOutcomes : Retry_try(res)
    \/ Retry_except
    \/ Retry_exhausted

(* The interpreter keeps running the loop. *)
SpecRetry == InitRetry /\ [][NextRetry]_vars /\ WF_vars(NextRetry)

ModelCalls(log) == SelectSeq(log, LAMBDA e : e.ev \in {"ok", "raise"})
Failures(log) == SelectSeq(log, LAMBDA e : e.ev = "raise")
RetryDone == call.pc \in {"returned", "raised", "returned None"}

RetryBounded ==
    LET log == call.log
        calls == ModelCalls(log)
        n == call.max_retries
    IN /\ Len(calls) <= n
       /\ \A i \in 1..Len(calls) : calls[i].attempt = i - 1
       (* a successful call is the last event, and its text is returned *)
       /\ \A i \in 1..Len(log) :
             log[i].ev = "ok"
             => i = Len(log) /\ call.pc = "returned"
                /\ call.returned = log[i].val
       /\ call.pc = "returned" => Len(log) > 0 /\ log[Len(log)].ev = "ok"
       (* a failed attempt other than the last is followed by its sleep *)
       /\ \A i \in 1..Len(log) :
             log[i].ev = "raise" /\ log[i].attempt < n - 1
             => \/ i = Len(log) /\ call.pc = "except"
                \/ /\ i < Len(log)
                   /\ log[i + 1].ev = "sleep"
                   /\ log[i + 1].seconds = log[i].attempt + 1
       (* a sleep follows a failed attempt that is not the last *)
       /\ \A i \in 1..Len(log) :
             log[i].ev = "sleep"
             => i > 1 /\ log[i - 1].ev = "raise"
                /\ log[i - 1].attempt < n - 1
       (* max_retries failures: the last exception is raised *)
       /\ (n >= 1 /\ Len(Failures(log)) = n /\ call.pc # "except")
          => call.pc = "raised" /\ call.raised = log[Len(log)].val
       /\ call.pc = "raised" => Len(Failures(log)) = n
       /\ call.pc = "returned None" => n = 0

(* C15: the model is called at most max_retries times; the first           *)
(* successful call ends the loop and its text is returned; each failed     *)
(* attempt but the last is followed by a sleep of attempt + 1 seconds;     *)
(* after max_retries failures the last exception is raised; the call       *)
(* always ends.                                                            *)
C15_BoundedRetry == [](Retrying => RetryBounded) /\ <>RetryDone

C15_Witness ==
    /\ Retrying
    /\ call.max_retries = 3
    /\ call.pc = "raised"
    /\ call.raised = "exc b"
    /\ Len(call.log) = 5
    /\ call.log[4].seconds = 2

----------------------------------------------------------------------------
(* core/middlewares.py AuthUserMiddleware, core/models.py BaseModel.save:  *)
(* SpecAudit.  Each thread handles one request at a time; inflight[t] is   *)
(* the request thread t is handling and the user it carries.               *)

(* request.user as AuthenticationMiddleware leaves it without a session. *)
AnonymousUser == 0

(* The Authorization header: none, or "Token k" with k the key of the      *)
(* token of user k; key 3 is the key of no stored token.                   *)
HeaderTokens == {NULL} \cup 1..3
SessionUsers == {AnonymousUser} \cup UserIds

(* get_user: request.user after the call. *)
get_user(header_token, session_user) ==
    IF header_token # NULL /\ header_token \in tokens
    THEN header_token
    ELSE session_user

IdleThread == [pc |-> "idle", user |-> Unset]

(* AuthUserMiddleware.__call__ up to self.get_response(request).  For a    *)
(* path that matches no URL pattern resolve raises Resolver404 before      *)
(* CURRENT_USER is assigned.                                               *)
AuthUserMiddleware_call(t, header_token, session_user, resolves) ==
    LET user == get_user(header_token, session_user) IN
    /\ inflight[t].pc = "idle"
    /\ request' = [view |-> "AuthUserMiddleware", thread |-> t, user |-> user,
                   pk |-> NULL]
    /\ IF resolves
       THEN /\ local' = [local EXCEPT ![t] = user]
            /\ inflight' = [inflight EXCEPT ![t] = [pc |-> "view", user |-> user]]
            /\ UNCHANGED <<response, exception>>
       ELSE /\ Return([status |-> 404])
            /\ UNCHANGED <<local, inflight>>
    /\ UNCHANGED <<tree, users, fields, products, tasks, tokens, now, agentVars,
                   offsets, call>>

(* isinstance(getattr(local, "CURRENT_USER"), InterUser) *)
IsUserInstance(current_user) == current_user \in UserIds

(* The view run by thread t saves a task that has no pk yet. *)
Audit_save(t) ==
    /\ inflight[t].pc = "view"
    /\ request' = [view |-> "BaseModel.save", thread |-> t,
                   user |-> inflight[t].user, pk |-> NULL]
    /\ IF BaseModel_save_raises
       THEN /\ Raise(LookupErrorMessage)
            /\ inflight' = [inflight EXCEPT ![t] = IdleThread]
            /\ UNCHANGED tasks
       ELSE IF IsUserInstance(local[t])
       THEN /\ tasks' = Append(tasks, [NewTask("t1", 1) EXCEPT
                                          !.created_by = local[t]])
            /\ Return([status |-> 200])
            /\ UNCHANGED inflight
       ELSE /\ Raise(IntegrityErrorMessage)
            /\ inflight' = [inflight EXCEPT ![t] = IdleThread]
            /\ UNCHANGED tasks
    /\ UNCHANGED <<tree, users, fields, products, tokens, now, agentVars, restVars>>

(* The view run by thread t saves a task that has a pk, as                 *)
(* BaseModel.delete does after setting deleted_at.                         *)
Audit_resave(t, pk) ==
    /\ inflight[t].pc = "view"
    /\ pk \in DOMAIN tasks
    /\ now <= MaxTime
    /\ request' = [view |-> "BaseModel.save", thread |-> t,
                   user |-> inflight[t].user, pk |-> pk]
    /\ tasks' = BaseModel_delete(tasks, pk, now)
    /\ now' = now + 1
    /\ UNCHANGED <<tree, users, fields, products, tokens, response, exception,
                   inflight, agentVars, restVars>>

(* return response *)
Audit_return(t) ==
    /\ inflight[t].pc = "view"
    /\ request' = [view |-> "return", thread |-> t, user |-> inflight[t].user,
                   pk |-> NULL]
    /\ Return([status |-> 200])
    /\ inflight' = [inflight EXCEPT ![t] = IdleThread]
    /\ UNCHANGED <<tree, users, fields, products, tasks, tokens, now, agentVars,
                   restVars>>

InitAudit ==
    /\ tree = "plants"
    /\ users = << [email |-> "a@x", user_access_unit |-> 0, deleted_at |-> NULL],
                  [email |-> "b@x", user_access_unit |-> 0, deleted_at |-> NULL] >>
    /\ fields = << [created_by |-> 1, deleted_at |-> NULL] >>
    /\ products = << >>
    /\ tasks = << [NewTask("t1", 1) EXCEPT !.created_by = 1],
                  [NewTask("t2", 1) EXCEPT !.created_by = 2] >>
    /\ tokens \in {{1}, {1, 2}}
    /\ now = 1
    /\ request = NoRequest
    /\ response = NoResponse
    /\ exception = ""
    /\ AgentIdle
    /\ RestIdle
    /\ inflight = [t \in Threads |-> IdleThread]

NextAudit ==
    \/ \E t \in Threads, header_token \in HeaderTokens,
          session_user \in SessionUsers, resolves \in BOOLEAN :
          AuthUserMiddleware_call(t, header_token, session_user, resolves)
    \/ \E t \in Threads : Audit_save(t)
    \/ \E t \in Threads, pk \in 1..MaxTasks : Audit_resave(t, pk)
    \/ \E t \in Threads : Audit_return(t)

SpecAudit == InitAudit /\ [][NextAudit]_vars

(* C16: while a thread runs a view, its CURRENT_USER is the user of the    *)
(* request it is handling; the first save of a record by a request of an   *)
(* authenticated user inserts the record with created_by set to that user; *)
(* a later save leaves created_by as it was.                               *)
C16_CurrentUserTracking ==
    [][ /\ \A t \in Threads :
              inflight'[t].pc = "view" => local'[t] = inflight'[t].user
        /\ (request'.view = "BaseModel.save" /\ request'.pk = NULL
            /\ request'.user \in UserIds)
           => /\ Len(tasks') = Len(tasks) + 1
              /\ tasks'[Len(tasks')].created_by = request'.user
        /\ (request'.view = "BaseModel.save" /\ request'.pk # NULL)
           => tasks'[request'.pk].created_by = tasks[request'.pk].created_by
      ]_vars

----------------------------------------------------------------------------
(* task_scheduler.py and planning_agent.py side by side: SpecDeps.  A      *)
(* process works with one of the two TaskScheduler classes; the object of  *)
(* the other class is never given a task.  The planner is given one task   *)
(* fewer than the scheduler.                                               *)

SchedulerUnused == scheduler = [tasks |-> << >>, last_id |-> 0]
PlannerUnused == planner = [tasks |-> << >>]

InitDeps ==
    /\ WebIdle
    /\ now = 0
    /\ AgentIdle
    /\ RestIdle

NextDeps ==
    \/ PlannerUnused /\ \E task_data \in TaskData : add_task(task_data)
    \/ PlannerUnused /\ \E task_id \in 1..MaxSchedTasks, status \in Statuses :
                           update_task_status(task_id, status)
    \/ PlannerUnused /\ optimize_schedule
    \/ SchedulerUnused /\ Len(planner.tasks) < MaxSchedTasks - 1
                       /\ \E task \in PlanTasks : planner_add_task(task)
    \/ SchedulerUnused /\ \E task_id \in 1..MaxSchedTasks, status \in Statuses :
                             planner_update_task_status(task_id, status)
    \/ SchedulerUnused /\ \E weather \in Weathers : schedule_tasks(weather)

SpecDeps == InitDeps /\ [][NextDeps]_vars

(* Every dependency of task i names a task of the list that is completed. *)
DependenciesCompleted(task_list, i) ==
    \A k \in DOMAIN task_list[i].dependencies :
       \E j \in DOMAIN task_list :
          /\ task_list[j].id = task_list[i].dependencies[k]
          /\ \A h \in 1..(j - 1) : task_list[h].id # task_list[j].id
          /\ task_list[j].status = "completed"

(* The tasks a call gave a start_date to or returned. *)
ScheduledBy(before, after, out) ==
    {i \in DOMAIN before :
        \/ after[i].start_date # before[i].start_date
        \/ out.op = "optimize_schedule"
           /\ \E k \in DOMAIN out.returned : out.returned[k] = before[i].id}

(* C17: a task that optimize_schedule or schedule_tasks schedules was      *)
(* pending and every id in its dependencies names a completed task; so a   *)
(* task with a pending dependency, and a task on a cycle of pending tasks, *)
(* is left without dates.                                                  *)
C17_OnlyWhenDependenciesCompleted ==
    [][ /\ outcome'.op = "optimize_schedule"
           => \A i \in ScheduledBy(scheduler.tasks, scheduler'.tasks, outcome') :
                 /\ scheduler.tasks[i].status = "pending"
                 /\ DependenciesCompleted(scheduler.tasks, i)
        /\ outcome'.op = "schedule_tasks"
           => \A i \in ScheduledBy(planner.tasks, planner'.tasks, outcome') :
                 /\ planner.tasks[i].status = "pending"
                 /\ DependenciesCompleted(planner.tasks, i)
      ]_vars

(* optimize_schedule returned task 3, whose dependency 1 is completed, and *)
(* left task 2, which depends on itself, without dates.                    *)
C17_Witness ==
    /\ outcome.op = "optimize_schedule"
    /\ outcome.raised = ""
    /\ outcome.returned = <<3>>
    /\ Len(scheduler.tasks) = 3
    /\ scheduler.tasks[1].status = "completed"
    /\ scheduler.tasks[3].dependencies = <<1>>
    /\ scheduler.tasks[3].start_date = outcome.at
    /\ scheduler.tasks[2].dependencies = <<2, 9>>
    /\ scheduler.tasks[2].status = "pending"
    /\ scheduler.tasks[2].start_date = NULL

----------------------------------------------------------------------------
(* The pending tasks of the list whose dependencies are all completed. *)
DependencySatisfied(task_list) ==
    {i \in DOMAIN task_list : /\ task_list[i].status = "pending"
                              /\ DependenciesCompleted(task_list, i)}

(* C18: a schedule_tasks call ends only if the weather reported to it is   *)
(* suitable for every pending task whose dependencies are completed (with  *)
(* unsuitable weather the search loop goes on for ever), and then it ends  *)
(* by returning.                                                           *)
C18_EndsOnlyWhenSuitable ==
    [][ (/\ outcome'.op = "schedule_tasks"
         /\ outcome'.weather # WeatherNone
         /\ DependencySatisfied(planner.tasks) # {})
        => /\ \A i \in DependencySatisfied(planner.tasks) :
                 is_weather_suitable(planner.tasks[i], outcome'.weather)
           /\ outcome'.raised = ""
      ]_vars

----------------------------------------------------------------------------
(* C19: among the tasks optimize_schedule returns that have equally many   *)
(* dependencies, one of higher priority (urgent > high > medium > low)     *)
(* comes before one of lower priority and does not start later.            *)
C19_PriorityAsUrgency ==
    [][ outcome'.op = "optimize_schedule"
        => LET after == scheduler'.tasks
               r == outcome'.returned
               T(k) == after[get_task(after, r[k])]
           IN \A k1, k2 \in DOMAIN r :
                 (/\ Len(T(k1).dependencies) = Len(T(k2).dependencies)
                  /\ PriorityRank(T(k1).priority) > PriorityRank(T(k2).priority))
                 => /\ k1 < k2
                    /\ T(k1).start_date <= T(k2).start_date
      ]_vars

(* Some dependency of task i names no task of the list. *)
MissingDependency(task_list, i) ==
    \E k \in DOMAIN task_list[i].dependencies :
       get_task(task_list, task_list[i].dependencies[k]) = 0

(* C20: optimize_schedule does not raise; it leaves a pending task with a  *)
(* dependency that names no task without dates, and returns every pending  *)
(* task whose dependencies are all completed.                              *)
C20_MissingDependencySkipped ==
    [][ outcome'.op = "optimize_schedule"
        => LET before == scheduler.tasks
               after == scheduler'.tasks
               r == outcome'.returned
           IN /\ outcome'.raised = ""
              /\ \A i \in DOMAIN before :
                    (before[i].status = "pending" /\ MissingDependency(before, i))
                    => /\ after[i] = before[i]
                       /\ \A k \in DOMAIN r : r[k] # before[i].id
              /\ \A i \in DependencySatisfied(before) :
                    \E k \in DOMAIN r : r[k] = before[i].id
      ]_vars

----------------------------------------------------------------------------
(* The tasks of a list have pairwise distinct ids. *)
DistinctIds(task_list) ==
    \A i, j \in DOMAIN task_list :
       task_list[i].id = task_list[j].id => i = j

(* C21: the tasks held by a scheduler have pairwise distinct ids, whatever *)
(* add_task calls were made, for both TaskScheduler classes.               *)
C21_DistinctTaskIds ==
    /\ DistinctIds(scheduler.tasks)
    /\ DistinctIds(planner.tasks)

----------------------------------------------------------------------------
(* task_scheduler.py, get_task_conflicts: SpecConflicts.                   *)

(* sorted(self.tasks, key = start_date or datetime.max): ascending and     *)
(* stable, tasks without a start_date last.  The result is the sequence of *)
(* their positions in task_list.                                           *)
sorted_tasks(task_list) ==
    LET Before(x, y) ==
           /\ x.start_date # NULL
           /\ (y.start_date = NULL \/ x.start_date < y.start_date)
        Ahead(i) == {j \in DOMAIN task_list :
                        \/ Before(task_list[j], task_list[i])
                        \/ /\ ~Before(task_list[i], task_list[j])
                           /\ j < i}
    IN [k \in DOMAIN task_list |->
           CHOOSE i \in DOMAIN task_list : Cardinality(Ahead(i)) = k - 1]

Undated(task) == task.start_date = NULL \/ task.end_date = NULL

(* task1.start_date <= task2.end_date and task2.start_date <= task1.end_date *)
intersects(task1, task2) ==
    /\ task1.start_date <= task2.end_date
    /\ task2.start_date <= task1.end_date

Max(a, b) == IF a >= b THEN a ELSE b
Min(a, b) == IF a <= b THEN a ELSE b

(* The two nested loops over sorted_tasks, from the pair at positions      *)
(* (i, j) on, i < j.                                                       *)
RECURSIVE conflicts_loop(_, _, _, _)
conflicts_loop(task_list, order, i, j) ==
    IF i > Len(order) THEN << >>
    ELSE IF j > Len(order) \/ Undated(task_list[order[i]])
    THEN conflicts_loop(task_list, order, i + 1, i + 2)
    ELSE LET task1 == task_list[order[i]]
             task2 == task_list[order[j]]
             rest == conflicts_loop(task_list, order, i, j + 1)
         IN IF ~Undated(task2) /\ intersects(task1, task2)
            THEN << [task1 |-> task1.id, task2 |-> task2.id,
                     overlap_start |-> Max(task1.start_date, task2.start_date),
                     overlap_end |-> Min(task1.end_date, task2.end_date)] >>
                 \o rest
            ELSE rest

(* TaskScheduler.get_task_conflicts; the optimize_schedule result it       *)
(* follows, if any, is kept in the outcome.                                *)
get_task_conflicts ==
    /\ outcome.op # "get_task_conflicts"
    /\ outcome' = [op |-> "get_task_conflicts",
                   after |-> outcome,
                   returned |-> conflicts_loop(scheduler.tasks,
                                               sorted_tasks(scheduler.tasks),
                                               1, 2)]
    /\ UNCHANGED <<webIdleVars, now, scheduler, planner>>

NextConflicts ==
    \/ \E task_data \in TaskData : add_task(task_data)
    \/ \E task_id \in 1..MaxSchedTasks, status \in Statuses :
          update_task_status(task_id, status)
    \/ optimize_schedule
    \/ get_task_conflicts

SpecConflicts == InitSched /\ [][NextConflicts]_vars

(* C22: the conflicts reported right after an optimize_schedule call that  *)
(* returned two or more tasks name no two of the returned tasks; every     *)
(* report names two dated tasks with intersecting intervals, and every     *)
(* such pair is reported once.                                             *)
C22_ScheduleConflictFree ==
    outcome.op = "get_task_conflicts"
    => LET r == outcome.returned
           T(id) == scheduler.tasks[get_task(scheduler.tasks, id)]
           ids == {scheduler.tasks[i].id : i \in DOMAIN scheduler.tasks}
           Reports(a, b) ==
              {k \in DOMAIN r : {r[k].task1, r[k].task2} = {a, b}}
       IN /\ \A k \in DOMAIN r :
                /\ r[k].task1 # r[k].task2
                /\ ~Undated(T(r[k].task1)) /\ ~Undated(T(r[k].task2))
          /\ \A a, b \in ids :
                (a # b /\ ~Undated(T(a)) /\ ~Undated(T(b))
                 /\ T(a).start_date <= T(b).end_date
                 /\ T(b).start_date <= T(a).end_date)
                => Cardinality(Reports(a, b)) = 1
          /\ (outcome.after.op = "optimize_schedule"
              /\ Len(outcome.after.returned) >= 2)
             => \A k \in DOMAIN r :
                   ~(/\ \E h \in DOMAIN outcome.after.returned :
                           outcome.after.returned[h] = r[k].task1
                     /\ \E h \in DOMAIN outcome.after.returned :
                           outcome.after.returned[h] = r[k].task2)

----------------------------------------------------------------------------
(* More properties of the marketplace (Spec).                              *)

(* C23: with requests handled one after the other, no user_access_unit is  *)
(* ever negative; a request whose cost equals the requester's balance      *)
(* passes the balance check (no 403) and leaves the balance at 0, and      *)
(* where rows can be inserted it creates its product.                      *)
C23_BalanceNeverNegative ==
    /\ [](\A u \in DOMAIN users : users[u].user_access_unit >= 0)
    /\ [][ (ComputesCost(request')
            /\ users[request'.user].user_access_unit = request'.cost)
           => /\ response'.status # 403
              /\ users'[request'.user].user_access_unit = 0
              /\ tree = "agroflex"
                 => /\ response'.status = 200
                    /\ Len(products') = Len(products) + 1
         ]_vars

(* A request of cost 2 was accepted and took the balance from 2 to 0. *)
C23_Witness ==
    /\ request.view = "FieldProductView.post"
    /\ request.cost = 2
    /\ response.status = 200
    /\ Len(products) = 1
    /\ users[request.user].user_access_unit = 0

(* C24: debit and product creation happen together or not at all: a        *)
(* product-creating request that adds no Product row leaves every stored   *)
(* balance as it was, and a request answered with 404 for its field_pk     *)
(* changes neither the balances nor the products.                          *)
C24_DebitAndCreateTogether ==
    [][ /\ (request'.view \in {"FieldProductView.post", "ProductViewSet.create"}
            /\ products' = products)
           => users' = users
        /\ (request'.view = "FieldProductView.post"
            /\ DoesNotExist(fields, request'.field_pk))
           => /\ response'.status = 404
              /\ users' = users
              /\ products' = products
      ]_vars

(* C25: FieldProductView.post naming a live field created by another user  *)
(* creates no product and debits nothing.                                  *)
C25_OnlyOwnField ==
    [][ (/\ request'.view = "FieldProductView.post"
         /\ ~DoesNotExist(fields, request'.field_pk)
         /\ fields[request'.field_pk].created_by # request'.user)
        => /\ products' = products
           /\ users' = users
      ]_vars

----------------------------------------------------------------------------
(* More properties of CreateTask.post (SpecTask).                          *)

(* C26: CreateTask.post for a field id that does not exist, is             *)
(* soft-deleted or was created by another user answers with the            *)
(* no-field-match message and creates no task; for a live field of the     *)
(* requester (and a title no live task of the field has) it creates        *)
(* exactly one task, on that field, with status P.                         *)
C26_TaskOnOwnLiveField ==
    [][ request'.view = "CreateTask.post"
        => IF \/ request'.field_id \notin DOMAIN fields
              \/ fields[request'.field_id].deleted_at # NULL
              \/ fields[request'.field_id].created_by # request'.user
           THEN response' = NoFieldMatch /\ tasks' = tasks
           ELSE LiveTasksNamed(tasks, request'.task_title, request'.field_id) = {}
                => /\ Len(tasks') = Len(tasks) + 1
                   /\ SubSeq(tasks', 1, Len(tasks)) = tasks
                   /\ tasks'[Len(tasks')].field = request'.field_id
                   /\ tasks'[Len(tasks')].status = "P"
      ]_vars

----------------------------------------------------------------------------
(* market/views/product.py, ProductViewSet list: SpecList.                 *)

(* ProductViewSet.queryset: Product.objects filtered on product_on_sale. *)
ProductViewSet_queryset(table) ==
    {pk \in objects(table) : table[pk].product_on_sale}

(* ProductViewSet.list (ListModelMixin): the rows of the queryset. *)
ProductViewSet_list(u) ==
    /\ request' = [view |-> "ProductViewSet.list", user |-> u,
                   field_pk |-> NULL, cost |-> 0]
    /\ Return([status |-> 200,
               body |-> [results |-> ProductViewSet_queryset(products)]])
    /\ UNCHANGED <<tree, users, fields, products, tasks, tokens, now, inflight,
                   agentVars, restVars>>

NextList ==
    \/ \E u \in UserIds, f \in FieldPks, c \in Costs :
          FieldProductView_post(u, f, c)
    \/ \E u \in UserIds, c \in Costs : ProductViewSet_create(u, c)
    \/ \E u \in UserIds, c \in Costs : agroflex_ProductViewSet_create(u, c)
    \/ \E u \in UserIds : ProductViewSet_list(u)
    \/ \E pk \in 1..MaxProducts : pk \in DOMAIN products
                                  /\ Instance_delete("products", pk)

SpecList == Init /\ [][NextList]_vars

(* C27: a list request returns every product created through the API that *)
(* has not been soft-deleted.                                              *)
C27_CreatedProductListed ==
    [][ request'.view = "ProductViewSet.list"
        => /\ response'.status = 200
           /\ \A pk \in DOMAIN products :
                 products[pk].deleted_at = NULL
                 => pk \in response'.body.results
      ]_vars

====
